---- MODULE Spec2Model ----
(***************************************************************************)
(* Request execution core of the HTTP client: one logical request driven   *)
(* through zero or more redirects by async_impl/client.rs                   *)
(* (Client::execute_request, then PendingRequest::poll once per answer of   *)
(* the transport).  lib.rs builds the crate from async_impl; client.rs, an  *)
(* older blocking client that is not a module of it, runs its own redirect  *)
(* loop in RequestBuilder::send and is modelled apart, as SendSpec.         *)
(*                                                                          *)
(* redirect.rs (RedirectPolicy::check, remove_sensitive_headers) is not    *)
(* part of the available sources; both are modelled from the design text.  *)
(*                                                                          *)
(* Four specifications share the module: Spec is the redirect loop of one   *)
(* logical request, DecoderSpec the body of one response from Response::new *)
(* to the end of its stream (async_impl/response.rs, async_impl/decoder.rs),*)
(* BridgeSpec the synchronous bridge, SendSpec the loop of client.rs on the *)
(* variables of Spec.  Each leaves the variables it does not use at their   *)
(* initial values.                                                          *)
(***************************************************************************)
EXTENDS Integers, Sequences, FiniteSets, TLC

\* ---------------------------------------------------------------- bounds
\* largest max of a limit(max) policy that is explored
MaxLimit == 2
\* largest number of redirects a custom policy is allowed to follow
MaxHops == 1

\* ------------------------------------------------------------- data model
Methods == {"GET", "HEAD", "POST"}

RedirectStatuses == {301, 302, 303, 307, 308}
Statuses == RedirectStatuses \cup {200}

\* a parsed Url; port "" is the scheme's default port
Url(s, un, pw, h, p, pa, f) ==
    [scheme |-> s, username |-> un, password |-> pw, host |-> h,
     port |-> p, path |-> pa, fragment |-> f]

\* Url::as_str / Url::into_string: the serialisation, one component per slot
as_str(u) ==
    <<u.scheme, u.username, u.password, u.host, u.port, u.path, u.fragment>>

\* URLs a logical request starts at
StartUrls ==
    { Url("http",  "",  "",  "a", "",     "/1", ""),
      Url("https", "u", "p", "a", "",     "/1", "f") }

\* absolute URLs a server redirects to
AbsUrls ==
    { Url("http",  "",  "",  "a", "",     "/1", ""),
      Url("https", "",  "",  "a", "",     "/1", ""),
      Url("https", "",  "",  "b", "",     "/1", ""),
      Url("https", "",  "",  "a", "8080", "/1", "") }

RelPaths == {"/2"}

\* the Location header of a response, as the bytes the server sent
NoLocation == [t |-> "missing", path |-> "", abs |-> <<>>]
Locations ==
    {NoLocation,
     [t |-> "nonutf8", path |-> "", abs |-> <<>>],
     [t |-> "unparsable", path |-> "", abs |-> <<>>]}
    \cup {[t |-> "path", path |-> p, abs |-> <<>>] : p \in RelPaths}
    \cup {[t |-> "abs", path |-> "", abs |-> as_str(u)] : u \in AbsUrls}

\* Option<T>
None == [tag |-> "None", val |-> <<>>]
Some(v) == [tag |-> "Some", val |-> v]

\* Url::parse of a serialisation
parse(s) ==
    Url(s[1], s[2], s[3], s[4], s[5], s[6], s[7])

\* self.url.join(str::from_utf8(val.as_bytes()).ok()?).ok()
\* an absolute-path reference keeps scheme and authority of the base and
\* drops its fragment; an absolute URL replaces the base altogether
join(base, location) ==
    CASE location.t = "path" ->
           Some([base EXCEPT !.path = location.path, !.fragment = ""])
      [] location.t = "abs" -> Some(parse(location.abs))
      [] OTHER -> None

\* ---------------------------------------------------------------- headers
\* a HeaderMap is a function from the header names it holds to the values of
\* each name, one per header line, in order
EmptyHeaders == [n \in {} |-> <<>>]

contains_key(h, k) == k \in DOMAIN h

\* insert replaces whatever the name held by the values v
insert(h, k, v) ==
    [n \in (DOMAIN h) \cup {k} |-> IF n = k THEN v ELSE h[n]]

remove(h, ks) ==
    [n \in (DOMAIN h) \ ks |-> h[n]]

DEFAULT_USER_AGENT == <<"reqwest">>

\* ClientBuilder::new: the default headers of the asynchronous client
DefaultHeaders ==
    [n \in {"user-agent", "accept"} |->
        IF n = "user-agent" THEN DEFAULT_USER_AGENT ELSE <<"*/*">>]

\* header collections a caller puts on a request; a Referer is the
\* serialisation of a URL
UserHeaders ==
    { EmptyHeaders,
      [n \in {"authorization", "cookie", "proxy-authorization",
              "content-type", "content-length", "accept-encoding",
              "user-agent", "referer"} |->
          CASE n = "cookie" -> <<"a=1", "b=2">>
            [] n = "referer" -> <<as_str(Url("http", "", "", "c", "", "/0", ""))>>
            [] OTHER -> <<"user">>],
      [n \in {"range"} |-> <<"bytes=0-1">>] }

\* ------------------------------------------------------------------ bodies
\* PendingRequest.body : Option<Option<Bytes>>
\*   None        no body
\*   Some(None)  a one-shot stream, cannot be replayed
\*   Some(Some(bytes))  an owned buffer
BodyNone == [tag |-> "None", bytes |-> <<>>]
BodyStream == [tag |-> "SomeNone", bytes |-> <<>>]
BodyBytes(b) == [tag |-> "SomeSome", bytes |-> b]

\* the bodies a caller hands over: nothing, a stream or a buffer
RequestBodies ==
    { [kind |-> "none", bytes |-> <<>>],
      [kind |-> "stream", bytes |-> <<7, 8>>],
      [kind |-> "bytes", bytes |-> <<1, 2>>] }

\* body.into_hyper(): the reusable part kept for redirects
reusable(b) ==
    CASE b.kind = "none" -> BodyNone
      [] b.kind = "stream" -> BodyStream
      [] b.kind = "bytes" -> BodyBytes(b.bytes)

\* ---------------------------------------------------------------- policies
PolicyNone == [kind |-> "none", max |-> 0]
PolicyLimit(m) == [kind |-> "limit", max |-> m]
PolicyCustom == [kind |-> "custom", max |-> 0]
Policies == {PolicyNone, PolicyCustom} \cup {PolicyLimit(m) : m \in 0..MaxLimit}

Actions == {"Follow", "Stop", "LoopDetected", "TooManyRedirects"}

InSeq(x, s) == \E i \in 1..Len(s) : s[i] = x

\* RedirectPolicy::check(status, next, previous); custom is the action the
\* caller's predicate returns for this attempt
check(policy, status, next, previous, custom) ==
    CASE policy.kind = "none" -> "Stop"
      [] policy.kind = "limit" ->
           IF Len(previous) > policy.max THEN "TooManyRedirects"
           ELSE IF InSeq(next, previous) THEN "LoopDetected"
           ELSE "Follow"
      [] OTHER -> custom

SensitiveHeaders == {"authorization", "cookie", "proxy-authorization"}

\* remove_sensitive_headers(headers, next, previous)
remove_sensitive_headers(h, next, previous) ==
    IF Len(previous) = 0 THEN h
    ELSE LET last == previous[Len(previous)]
             cross_host == \/ next.host # last.host
                           \/ next.scheme # last.scheme
                           \/ next.port # last.port
         IN IF cross_host THEN remove(h, SensitiveHeaders) ELSE h

\* -------------------------------------------------------------------- state
VARIABLES
    client,     \* ClientRef: gzip, headers, redirect_policy, referer
    pc,         \* "idle", "pending" (one transport operation in flight), "done"
    method,     \* PendingRequest.method
    url,        \* PendingRequest.url
    headers,    \* PendingRequest.headers
    body,       \* PendingRequest.body
    urls,       \* PendingRequest.urls
    in_flight,  \* the request handed to the transport for the current attempt
    request,    \* the Request execute was called with
    attempts,   \* the requests handed to the transport so far, oldest first
    status,     \* status of the response handled last, 0 before the first
    candidate,  \* the URL its Location resolved to, if poll got that far
    action,     \* the policy's answer to it, "" if the policy was not asked
    result,     \* what execute returned
    brotli,     \* check_brotli, the second flag Decoder::detect is called with
    hyper_res,  \* the transport's response handed to Response::new
    res_headers,\* Response.headers
    decoder,    \* Response.body: the Decoder and the stream it wraps
    items,      \* what poll_next has returned to the reader so far
    timeout,    \* the synchronous client is configured with a deadline
    thread,     \* the background thread: "unspawned", "building", "running", "exited"
    ready,      \* the one-shot channel of construction: "empty", "ok" or a failure
    built,      \* the construction call: "none", "waiting", "ok" or the failure
    clients,    \* the synchronous client handles: "none", "live" or "dropped"
    tx_drops,   \* how often the work-queue sender was dropped
    joining,    \* how many droppers are blocked joining the thread
    joins,      \* how often a join of the thread has returned
    queue,      \* the work queue
    spawned,    \* the work items the thread took and spawned as tasks
    finished,   \* the tasks that completed and sent their reply
    calls,      \* the blocking call of each client handle
    futures     \* the Pending futures of requests executed side by side

engine_vars == <<client, pc, method, url, headers, body, urls, in_flight,
                 request, attempts, status, candidate, action, result>>

decoder_vars == <<brotli, hyper_res, res_headers, decoder, items>>

bridge_vars == <<timeout, thread, ready, built, clients, tx_drops, joining,
                 joins, queue, spawned, finished, calls>>

pair_vars == <<futures>>

vars == <<engine_vars, decoder_vars, bridge_vars, pair_vars>>

\* what the bridge leaves alone
others == <<engine_vars, decoder_vars, pair_vars>>

NoUrl == Url("", "", "", "", "", "", "")
NoRequest == [method |-> "", url |-> NoUrl, headers |-> EmptyHeaders, body |-> <<>>]
NoCall == [method |-> "", url |-> NoUrl, headers |-> EmptyHeaders,
           body |-> [kind |-> "none", bytes |-> <<>>]]
NoResult == [kind |-> "none", error |-> "", status |-> 0, url |-> NoUrl]

\* no response has been handed to Response::new
NoResponse == [headers |-> EmptyHeaders, body |-> <<>>]
NoDecoder == [inner |-> "", decoder_type |-> "", stream |-> <<>>,
              z |-> [phase |-> "", n |-> 0]]
NoBody ==
    /\ brotli = FALSE
    /\ hyper_res = NoResponse
    /\ res_headers = EmptyHeaders
    /\ decoder = NoDecoder
    /\ items = <<>>

\* most synchronous client handles alive or dropped at a time
MaxClients == 2
\* most blocking calls made through the handles of one bridge
MaxCalls == 2

Clients == 1..MaxClients
NoCallYet == [state |-> "idle", n |-> 0, url |-> NoUrl, result |-> NoResult]

\* no synchronous client has been asked for
NoBridge ==
    /\ timeout = FALSE
    /\ thread = "unspawned"
    /\ ready = "empty"
    /\ built = "none"
    /\ clients = [c \in Clients |-> "none"]
    /\ tx_drops = 0
    /\ joining = 0
    /\ joins = 0
    /\ queue = <<>>
    /\ spawned = {}
    /\ finished = {}
    /\ calls = [c \in Clients |-> NoCallYet]

\* no requests are executed side by side
NoPair == futures = <<>>

Init ==
    /\ client \in [gzip : BOOLEAN, headers : {DefaultHeaders},
                   redirect_policy : Policies, referer : BOOLEAN]
    /\ pc = "idle"
    /\ method = ""
    /\ url = NoUrl
    /\ headers = EmptyHeaders
    /\ body = BodyNone
    /\ urls = <<>>
    /\ in_flight = NoRequest
    /\ request = NoCall
    /\ attempts = <<>>
    /\ status = 0
    /\ candidate = None
    /\ action = ""
    /\ result = NoResult
    /\ NoBody
    /\ NoBridge
    /\ NoPair

\* ------------------------------------------------- building the first attempt
\* a variant in which the defaults win
merge_headers_defaults_win(defaults, user) ==
    [n \in (DOMAIN defaults) \cup (DOMAIN user) |->
        IF n \in DOMAIN defaults THEN defaults[n] ELSE user[n]]

\* Client::execute_request: the default headers, then one insert per (name,
\* value) pair of the request's headers in order; each insert replaces what
\* the name held, so the last value of a name is the one left
merge_headers(defaults, user) ==
    [n \in (DOMAIN defaults) \cup (DOMAIN user) |->
        IF n \in DOMAIN user THEN <<user[n][Len(user[n])]>> ELSE defaults[n]]

\* a variant that advertises gzip whenever decompression is on
accept_encoding_always(gzip, h) ==
    IF gzip THEN insert(h, "accept-encoding", <<"gzip">>) ELSE h

\* Accept-Encoding: gzip is added when decompression is on and the headers
\* hold neither Accept-Encoding nor Range
accept_encoding(gzip, h) ==
    IF gzip /\ ~contains_key(h, "accept-encoding") /\ ~contains_key(h, "range")
    THEN insert(h, "accept-encoding", <<"gzip">>)
    ELSE h

\* ::hyper::Request::builder().method(..).uri(..).body(..) and its headers
hyper_request(m, u, h, b) ==
    [method |-> m, url |-> u, headers |-> h, body |-> b]

execute_request(req) ==
    /\ pc = "idle"
    /\ LET hs == accept_encoding(client.gzip,
                                 merge_headers(client.headers, req.headers))
           first == hyper_request(req.method, req.url, hs, req.body.bytes)
       IN /\ method' = req.method
          /\ url' = req.url
          /\ headers' = hs
          /\ body' = reusable(req.body)
          /\ urls' = <<>>
          /\ in_flight' = first
          /\ attempts' = <<req.url>>
          /\ request' = req
    /\ pc' = "pending"
    /\ UNCHANGED <<client, status, candidate, action, result, decoder_vars,
                   bridge_vars, pair_vars>>

\* ------------------------------------------------------ handling a response
EntityHeaders ==
    {"transfer-encoding", "content-encoding", "content-type", "content-length"}

\* 301/302/303 clear the body
redirect_body(st, b) ==
    IF st \in {301, 302, 303} THEN BodyNone ELSE b

\* 301/302/303 strip the entity headers
redirect_headers(st, h) ==
    IF st \in {301, 302, 303} THEN remove(h, EntityHeaders) ELSE h

\* a variant that leaves the method alone
redirect_method_kept(st, m) ==
    m

\* a variant that downgrades the method on every redirect status
redirect_method_all(st, m) ==
    IF st \in RedirectStatuses /\ m \notin {"GET", "HEAD"} THEN "GET" ELSE m

\* 301/302/303 turn every method but GET and HEAD into GET
redirect_method(st, m) ==
    IF st \in {301, 302, 303} /\ m \notin {"GET", "HEAD"} THEN "GET" ELSE m

\* a variant that follows 307/308 whatever the body is
should_redirect_any_body(st, b) ==
    st \in RedirectStatuses

\* the match on res.status(); b is the body before the match
should_redirect(st, b) ==
    CASE st \in {301, 302, 303} -> TRUE
      [] st \in {307, 308} -> b.tag # "SomeNone"
      [] OTHER -> FALSE

\* a variant that falls back to the current URL when the header is unusable
location_url_lenient(current, location) ==
    IF location.t \in {"path", "abs"} THEN join(current, location)
    ELSE Some(current)

\* res.headers().get(LOCATION).and_then(...): the candidate URL, if any
location_url(current, location) ==
    IF location.t = "missing" \/ location.t = "nonutf8" THEN None
    ELSE join(current, location)

\* a variant without the https to http test
make_referer_always(next, previous) ==
    Some(as_str([previous EXCEPT !.username = "", !.password = "",
                                 !.fragment = ""]))

\* a variant that sends the previous URL as it is
make_referer_whole(next, previous) ==
    IF next.scheme = "http" /\ previous.scheme = "https" THEN None
    ELSE Some(as_str(previous))

\* make_referer(next, previous)
make_referer(next, previous) ==
    IF next.scheme = "http" /\ previous.scheme = "https" THEN None
    ELSE Some(as_str([previous EXCEPT !.username = "", !.password = "",
                                      !.fragment = ""]))

\* if self.client.referer { if let Some(referer) = make_referer(..) {insert} }
set_referer(referer, h, next, previous) ==
    IF referer /\ make_referer(next, previous).tag = "Some"
    THEN insert(h, "referer", <<make_referer(next, previous).val>>)
    ELSE h

\* a variant that forgets the URL just requested
push_url_none(previous, current) ==
    previous

\* self.urls.push(self.url.clone())
push_url(previous, current) ==
    Append(previous, current)

\* the two URLs differ in host, scheme or port
CrossOriginOf(u, v) ==
    u.host # v.host \/ u.scheme # v.scheme \/ u.port # v.port

\* a variant that reissues with the headers as they are
follow_headers_kept(h, next, previous) ==
    h

\* a variant that puts the caller's headers back on a return to the host,
\* scheme and port the request started at
follow_headers_restored(h, next, previous) ==
    IF CrossOriginOf(next, previous[1])
    THEN remove_sensitive_headers(h, next, previous)
    ELSE merge_headers(h, request.headers)

\* headers of the reissued request: remove_sensitive_headers(&mut self.headers,
\* &self.url, &self.urls) with self.url already the redirect target
follow_headers(h, next, previous) ==
    remove_sensitive_headers(h, next, previous)

\* a variant that replays the body the caller handed over
follow_body_replayed(b) ==
    request.body.bytes

\* body of the reissued request
follow_body(b) ==
    IF b.tag = "SomeSome" THEN b.bytes ELSE <<>>

\* a variant that reports the URL the caller asked for
response_original_url(st, u) ==
    [kind |-> "Ok", error |-> "", status |-> st, url |-> request.url]

\* Response::new(res, self.url.clone(), ..)
response(st, u) ==
    [kind |-> "Ok", error |-> "", status |-> st, url |-> u]

\* crate::error::loop_detected(self.url.clone())
loop_detected(u) ==
    [kind |-> "Err", error |-> "RedirectLoop", status |-> 0, url |-> u]

\* crate::error::too_many_redirects(self.url.clone())
too_many_redirects(u) ==
    [kind |-> "Err", error |-> "TooManyRedirects", status |-> 0, url |-> u]

\* a variant that annotates with the URL the caller asked for
try_original_url(u) ==
    [kind |-> "Err", error |-> "Transport", status |-> 0, url |-> request.url]

\* try_!(self.in_flight.poll(), &self.url)
try_(u) ==
    [kind |-> "Err", error |-> "Transport", status |-> 0, url |-> u]

\* a variant in which Stop reissues the request as well
follows_stop(a) ==
    a \in {"Follow", "Stop"}

\* a variant that follows one redirect beyond the ceiling of a limit policy
follows_once_more(a) ==
    \/ a = "Follow"
    \/ a = "TooManyRedirects" /\ Len(urls) <= client.redirect_policy.max

\* the match on the policy's answer: Follow reissues the request
follows(a) ==
    a = "Follow"

\* a variant in which TooManyRedirects falls through to the response too
action_result_lenient(a, st, u) ==
    IF a = "LoopDetected" THEN loop_detected(u) ELSE response(st, u)

\* the match on the policy's answer: Stop falls through to the response, the
\* other two answers return their error
action_result(a, st, u) ==
    CASE a = "LoopDetected" -> loop_detected(u)
      [] a = "TooManyRedirects" -> too_many_redirects(u)
      [] OTHER -> response(st, u)

Finish(r) ==
    /\ pc' = "done"
    /\ result' = r
    /\ UNCHANGED <<url, in_flight, attempts>>

\* PendingRequest::poll, the transport having answered the attempt in flight
\* with status st and Location header location; custom is what the predicate
\* of a custom policy answers when it is asked
poll_response(st, location, custom) ==
    /\ pc = "pending"
    /\ LET body1 == redirect_body(st, body)
           headers1 == redirect_headers(st, headers)
           method1 == redirect_method(st, method)
           loc == IF should_redirect(st, body) THEN location_url(url, location)
                  ELSE None
       IN /\ status' = st
          /\ candidate' = loc
          /\ body' = body1
          /\ method' = method1
          /\ IF loc.tag = "None"
             THEN /\ headers' = headers1
                  /\ urls' = urls
                  /\ action' = ""
                  /\ Finish(response(st, url))
             ELSE LET next == loc.val
                      headers2 == set_referer(client.referer, headers1, next, url)
                      urls1 == push_url(urls, url)
                      a == check(client.redirect_policy, st, next, urls1, custom)
                  IN /\ urls' = urls1
                     /\ action' = a
                     /\ (client.redirect_policy.kind = "custom" /\ a = "Follow")
                            => Len(urls1) <= MaxHops
                     /\ IF follows(a)
                        THEN LET headers3 == follow_headers(headers2, next, urls1)
                                 req == hyper_request(method1, next, headers3,
                                                      follow_body(body1))
                             IN /\ url' = next
                                /\ headers' = headers3
                                /\ in_flight' = req
                                /\ attempts' = Append(attempts, next)
                                /\ UNCHANGED <<pc, result>>
                        ELSE /\ headers' = headers2
                             /\ Finish(action_result(a, st, url))
    /\ UNCHANGED <<client, request, decoder_vars, bridge_vars, pair_vars>>

\* PendingRequest::poll, the transport having failed on the attempt in flight
poll_error ==
    /\ pc = "pending"
    /\ pc' = "done"
    /\ result' = try_(url)
    /\ UNCHANGED <<client, method, url, headers, body, urls, in_flight,
                   request, attempts, status, candidate, action, decoder_vars,
                   bridge_vars, pair_vars>>

\* a body goes with POST; GET and HEAD requests carry none
Requests ==
    { r \in [method : Methods, url : StartUrls, headers : UserHeaders,
             body : RequestBodies] :
          r.body.kind # "none" => r.method = "POST" }

\* what a custom policy may answer; the other policies take no answer
Answers == IF client.redirect_policy.kind = "custom" THEN Actions ELSE {"Follow"}

Next ==
    \/ \E req \in Requests : execute_request(req)
    \/ \E st \in Statuses, location \in Locations, custom \in Answers :
           poll_response(st, location, custom)
    \/ poll_error

Spec == Init /\ [][Next]_vars

\* ----------------------------------------------------------- properties
\* a step of poll that handles a response of the transport: it reissues the
\* request or returns something other than a transport error
Handled ==
    /\ pc = "pending"
    /\ \/ pc' = "pending" /\ Len(attempts') = Len(attempts) + 1
       \/ pc' = "done" /\ result'.error # "Transport"

\* a step that reissues the request: one more attempt is in flight
Followed ==
    /\ pc = "pending"
    /\ pc' = "pending"
    /\ Len(attempts') = Len(attempts) + 1

\* the attempts issued are the visited URLs and the URL in flight
TypeOK ==
    /\ pc \in {"idle", "pending", "done"}
    /\ action \in Actions \cup {""}
    /\ pc = "pending" => /\ attempts = Append(urls, url)
                         /\ in_flight.url = url
                         /\ action \in {"", "Follow"}

\* C1: when a 301, 302 or 303 response is followed, the next attempt has an
\* empty body, and its method is GET unless the previous method was GET or
\* HEAD, which is kept
C1_SeeOtherDowngrades ==
    [][(Followed /\ status' \in {301, 302, 303}) =>
          /\ in_flight'.body = <<>>
          /\ in_flight'.method =
                 IF in_flight.method \in {"GET", "HEAD"} THEN in_flight.method
                 ELSE "GET"]_vars

\* a POST with a body was redirected by a 303 and went out again as a GET
\* without body
C1_Witness ==
    /\ pc = "pending"
    /\ Len(attempts) = 2
    /\ status = 303
    /\ request.method = "POST"
    /\ request.body.bytes # <<>>
    /\ in_flight.method = "GET"
    /\ in_flight.body = <<>>

\* C2: on a 307 or 308 a followed attempt carries the bytes of a replayable
\* body unchanged; with a body that cannot be replayed no attempt is issued
\* and the 307/308 response itself is the Ok result
C2_TemporaryKeepsBody ==
    [][(Handled /\ status' \in {307, 308}) =>
          /\ (Followed /\ body.tag = "SomeSome") =>
                 /\ request.body.kind = "bytes"
                 /\ in_flight'.body = request.body.bytes
          /\ body.tag = "SomeNone" =>
                 /\ pc' = "done"
                 /\ result' = [kind |-> "Ok", error |-> "", status |-> status',
                               url |-> in_flight.url]
                 /\ attempts' = attempts
                 /\ in_flight' = in_flight]_vars

\* a buffer was sent again after a 307
C2_Witness ==
    /\ pc = "pending"
    /\ Len(attempts) = 2
    /\ status = 307
    /\ request.body.kind = "bytes"
    /\ in_flight.body = request.body.bytes
    /\ in_flight.body # <<>>

\* a 308 came back to a request whose body is a stream and ended it
C2_WitnessStream ==
    /\ pc = "done"
    /\ request.body.kind = "stream"
    /\ result.kind = "Ok"
    /\ result.status = 308
    /\ Len(attempts) = 1

\* the URLs visited once the current one is appended, as the policy sees them
Visited == Append(urls, in_flight.url)

Ok(st, u) == [kind |-> "Ok", error |-> "", status |-> st, url |-> u]
Err(e, u) == [kind |-> "Err", error |-> e, status |-> 0, url |-> u]

\* a step in which a limit policy within its limit is asked about a candidate
\* that is already among the visited URLs
LoopStep ==
    /\ Handled
    /\ client.redirect_policy.kind = "limit"
    /\ candidate'.tag = "Some"
    /\ InSeq(candidate'.val, Visited)
    /\ Len(Visited) <= client.redirect_policy.max

\* C3 as stated, for the policy that detects loops and within its limit: a
\* candidate URL that repeats a visited URL ends execute with a RedirectLoop
\* error naming the repeated URL, which is not requested again
C3_Original ==
    [][LoopStep =>
          /\ pc' = "done"
          /\ result' = Err("RedirectLoop", candidate'.val)
          /\ attempts' = attempts]_vars

\* C3 (amended): under limit(max), a candidate URL that repeats a visited URL
\* while at most max URLs have been visited ends execute with a RedirectLoop
\* error carrying the URL of the attempt whose response was the redirect; no
\* further attempt is issued
C3_LoopNamesRedirectingUrl ==
    [][LoopStep =>
          /\ pc' = "done"
          /\ result' = Err("RedirectLoop", in_flight.url)
          /\ attempts' = attempts
          /\ in_flight' = in_flight]_vars

\* a -> b -> a: the loop is reported with b, the repeated URL is a
C3_Witness ==
    /\ pc = "done"
    /\ client.redirect_policy.kind = "limit"
    /\ result.error = "RedirectLoop"
    /\ Len(attempts) = 2
    /\ candidate = Some(attempts[1])
    /\ result.url = attempts[2]
    /\ attempts[1] # attempts[2]

\* C4: under limit(max) with no repeated URL, each of the first max redirects
\* is followed and a non-redirect response then succeeds with that response;
\* redirect number max+1 ends with TooManyRedirects
C4_LimitExact ==
    [][(Handled /\ client.redirect_policy.kind = "limit") =>
          LET max == client.redirect_policy.max
              fresh == candidate'.tag = "Some" /\ ~InSeq(candidate'.val, Visited)
          IN /\ (fresh /\ Len(urls) < max) =>
                    /\ Followed
                    /\ in_flight'.url = candidate'.val
             /\ (fresh /\ Len(urls) = max) =>
                    /\ pc' = "done"
                    /\ result' = Err("TooManyRedirects", in_flight.url)
                    /\ attempts' = attempts
             /\ (status' \notin RedirectStatuses /\ Len(urls) <= max) =>
                    /\ pc' = "done"
                    /\ result' = Ok(status', in_flight.url)]_vars

\* limit(1): the second redirect of a chain of distinct URLs is refused
C4_Witness ==
    /\ pc = "done"
    /\ client.redirect_policy = PolicyLimit(1)
    /\ result.error = "TooManyRedirects"
    /\ Len(attempts) = 2
    /\ Len(urls) = 2
    /\ candidate.tag = "Some"
    /\ ~InSeq(candidate.val, urls)

\* limit(2): two redirects were followed and the third attempt's 200 returned
C4_WitnessSuccess ==
    /\ pc = "done"
    /\ client.redirect_policy = PolicyLimit(2)
    /\ Len(attempts) = 3
    /\ Len(urls) = 2
    /\ result = Ok(200, attempts[3])

RefererOf(h) == IF "referer" \in DOMAIN h THEN Some(h["referer"]) ELSE None

\* C5: a followed redirect from an https URL to an http URL leaves the
\* Referer of the request as it was: the engine sets none
C5_NoRefererOnDowngrade ==
    [][(Followed /\ in_flight.url.scheme = "https"
                 /\ in_flight'.url.scheme = "http") =>
          RefererOf(in_flight'.headers) = RefererOf(in_flight.headers)]_vars

\* referer propagation is on, the request went from https to http and carries
\* no Referer
C5_Witness ==
    /\ pc = "pending"
    /\ client.referer
    /\ Len(attempts) = 2
    /\ attempts[1].scheme = "https"
    /\ attempts[2].scheme = "http"
    /\ "referer" \notin DOMAIN in_flight.headers

CrossOrigin(u, v) ==
    u.host # v.host \/ u.scheme # v.scheme \/ u.port # v.port

\* C6: a followed redirect that changes host, scheme or port reissues the
\* request without Authorization, Cookie and Proxy-Authorization
C6_SensitiveStripped ==
    [][(Followed /\ CrossOrigin(in_flight.url, in_flight'.url)) =>
          (DOMAIN in_flight'.headers) \cap SensitiveHeaders = {}]_vars

\* the caller's credentials were dropped on a redirect that changed the port
\* only
C6_Witness ==
    /\ pc = "pending"
    /\ Len(attempts) = 2
    /\ SensitiveHeaders \subseteq DOMAIN request.headers
    /\ attempts[1].host = attempts[2].host
    /\ attempts[1].scheme = attempts[2].scheme
    /\ attempts[1].port # attempts[2].port
    /\ (DOMAIN in_flight.headers) \cap SensitiveHeaders = {}

\* C7: a non-redirect response ends execute with an Ok response that has the
\* URL of the last attempt and that attempt's status, the history being the
\* URLs of the redirected attempts before it, in order
C7_TerminalResponse ==
    [][(Handled /\ status' \notin RedirectStatuses) =>
          /\ pc' = "done"
          /\ result' = Ok(status', attempts[Len(attempts)])
          /\ attempts' = attempts
          /\ urls' = SubSeq(attempts, 1, Len(attempts) - 1)]_vars

\* two redirects, then 200 at the third URL
C7_Witness ==
    /\ pc = "done"
    /\ Len(attempts) = 3
    /\ result = Ok(200, attempts[3])
    /\ urls = <<attempts[1], attempts[2]>>
    /\ attempts[1] # attempts[2]
    /\ attempts[2] # attempts[3]

BadLocations == {l \in Locations : l.t \in {"missing", "nonutf8", "unparsable"}}

\* C8: a redirect status whose Location is missing, not UTF-8 or does not
\* resolve ends execute with that response as Ok result and no new attempt
C8_BadLocationIsOk ==
    [][\A location \in BadLocations, custom \in Answers :
          (pc = "pending" /\ status' \in RedirectStatuses
           /\ poll_response(status', location, custom)) =>
             /\ pc' = "done"
             /\ result' = Ok(status', in_flight.url)
             /\ attempts' = attempts
             /\ in_flight' = in_flight]_vars

\* a 301 after one followed redirect, returned without asking the policy
C8_Witness ==
    /\ pc = "done"
    /\ result.kind = "Ok"
    /\ result.status = 301
    /\ candidate = None
    /\ action = ""
    /\ Len(attempts) = 2

\* C9: under the none policy every handled response is the Ok result of the
\* first and only attempt; whenever a policy answers Stop the response in hand
\* is returned as Ok and nothing is reissued
C9_StopReturnsResponse ==
    [][/\ (Handled /\ client.redirect_policy.kind = "none") =>
             /\ pc' = "done"
             /\ result' = Ok(status', in_flight.url)
             /\ Len(attempts') = 1
       /\ (Handled /\ action' = "Stop") =>
             /\ pc' = "done"
             /\ result' = Ok(status', in_flight.url)
             /\ attempts' = attempts]_vars

\* none policy: a 302 with a usable Location came back as the result
C9_Witness ==
    /\ pc = "done"
    /\ client.redirect_policy.kind = "none"
    /\ action = "Stop"
    /\ candidate.tag = "Some"
    /\ result = Ok(302, request.url)
    /\ Len(attempts) = 1

\* C10: a transport failure ends execute with a Transport error carrying the
\* URL of the attempt that failed
C10_TransportErrorUrl ==
    [][poll_error =>
          /\ pc' = "done"
          /\ result' = Err("Transport", attempts[Len(attempts)])
          /\ in_flight.url = attempts[Len(attempts)]]_vars

\* the third attempt failed; its URL, not the original one, is reported
C10_Witness ==
    /\ pc = "done"
    /\ result.error = "Transport"
    /\ Len(attempts) = 3
    /\ result.url = attempts[3]
    /\ result.url # request.url

\* ============================================================ response body
\* Response::new wraps the body of the transport's response in a Decoder
\* (async_impl/response.rs, async_impl/decoder.rs); the reader then polls it to
\* the end.  decoder.rs is built with the gzip and brotli features.

\* longest content a server compresses
MaxContent == 2

Bytes == {0, 1}
Contents == UNION {[1..n -> Bytes] : n \in 0..MaxContent}

\* a compressed stream is a magic byte, one symbol per content byte, an end
\* symbol and the content length as trailer
Codec(name) ==
    IF name = "gzip" THEN [magic |-> 31, shift |-> 100, end |-> 99]
    ELSE [magic |-> 206, shift |-> 200, end |-> 199]

\* the encoder a server runs over the content
compress(name, content) ==
    LET c == Codec(name)
    IN <<c.magic>> \o [i \in 1..Len(content) |-> content[i] + c.shift]
                   \o <<c.end, Len(content)>>

\* what the server does to the content before it sends it
Codings == {"identity", "gzip", "br"}
encode(coding, content) ==
    IF coding = "identity" THEN content ELSE compress(coding, content)

\* items of the raw stream: a chunk of bytes or a failure of the transport
RawChunk(b) == [ok |-> TRUE, bytes |-> b]
RawFailure == [ok |-> FALSE, bytes |-> <<>>]

\* the transport cuts the bytes into chunks of at most size bytes
RECURSIVE chunks(_, _)
chunks(bytes, size) ==
    IF bytes = <<>> THEN <<>>
    ELSE IF Len(bytes) <= size THEN <<RawChunk(bytes)>>
    ELSE <<RawChunk(SubSeq(bytes, 1, size))>>
             \o chunks(SubSeq(bytes, size + 1, Len(bytes)), size)

\* one byte per chunk, two bytes per chunk, everything in one chunk
ChunkSizes == {1, 2, MaxContent + 3}

\* the transport fails after this many chunks, or not at all
NoFailure == 0 - 1
Failures == {NoFailure, 0, 1}

raw_stream(bytes, size, fail) ==
    LET cs == chunks(bytes, size)
    IN IF fail = NoFailure THEN cs
       ELSE SubSeq(cs, 1, IF fail < Len(cs) THEN fail ELSE Len(cs))
                \o <<RawFailure>>

\* decimal header values
Decimal == <<"0", "1", "2", "3", "4", "5", "6", "7", "8", "9">>
to_string(n) == Decimal[n + 1]

\* ct_len.parse().ok()
parse_u64(str) ==
    IF \E n \in 0..9 : Decimal[n + 1] = str
    THEN Some(CHOOSE n \in 0..9 : Decimal[n + 1] = str)
    ELSE None

\* headers.get_all(name): the values of a name, one per header line
get_all(h, k) == IF k \in DOMAIN h THEN h[k] ELSE <<>>

\* headers.get(name): the first of them
get(h, k) == IF k \in DOMAIN h THEN Some(h[k][1]) ELSE None

any(values, v) == \E i \in 1..Len(values) : values[i] = v

\* header collections of a response: each of the three names is absent or has
\* one of these values
ContentEncodings == {<<>>, <<"gzip">>, <<"br">>, <<"deflate", "gzip">>}
TransferEncodings == {<<>>, <<"gzip">>, <<"chunked">>}
ContentLengths == {"none", "zero", "actual"}

response_headers(ce, te, cl) ==
    LET names == (IF ce # <<>> THEN {"content-encoding"} ELSE {})
                 \cup (IF te # <<>> THEN {"transfer-encoding"} ELSE {})
                 \cup (IF cl # <<>> THEN {"content-length"} ELSE {})
                 \cup {"server"}
    IN [n \in names |->
           CASE n = "content-encoding" -> ce
             [] n = "transfer-encoding" -> te
             [] n = "content-length" -> cl
             [] OTHER -> <<"test">>]

\* the responses of a transport: a server encodes a content, declares what it
\* likes, and the transport delivers the bytes in chunks; a response with
\* Content-Length: 0 has no body bytes
Responses ==
    { [headers |-> response_headers(ce, te,
                      CASE cl = "none" -> <<>>
                        [] cl = "zero" -> <<"0">>
                        [] OTHER -> <<to_string(Len(encode(coding, content)))>>),
       body |-> raw_stream(IF cl = "zero" THEN <<>> ELSE encode(coding, content),
                           size, fail),
       content |-> content,
       coding |-> coding,
       failure |-> fail] :
         ce \in ContentEncodings, te \in TransferEncodings,
         cl \in ContentLengths, coding \in Codings, content \in Contents,
         size \in ChunkSizes, fail \in Failures }

\* ------------------------------------------------------------ Decoder::detect
\* a variant without the Content-Length: 0 exception
detect_codec_ignores_length(h, name) ==
    LET is == \/ any(get_all(h, "content-encoding"), name)
              \/ any(get_all(h, "transfer-encoding"), name)
    IN [is |-> is,
        headers |-> IF is THEN remove(h, {"content-encoding", "content-length"})
                    ELSE h]

\* Decoder::detect_gzip / detect_brotli: is the codec declared, and the headers
\* it leaves behind
detect_codec(h, name) ==
    LET declared == \/ any(get_all(h, "content-encoding"), name)
                    \/ any(get_all(h, "transfer-encoding"), name)
        is == declared /\ get(h, "content-length") # Some("0")
    IN [is |-> is,
        headers |-> IF is THEN remove(h, {"content-encoding", "content-length"})
                    ELSE h]

detect_gzip(h) == detect_codec(h, "gzip")
detect_brotli(h) == detect_codec(h, "br")

\* Decoder::plain_text, Decoder::gzip, Decoder::brotli
z0 == [phase |-> "magic", n |-> 0]
plain_text(stream) ==
    [inner |-> "PlainText", decoder_type |-> "", stream |-> stream, z |-> z0]
pending(stream, type) ==
    [inner |-> "Pending", decoder_type |-> type, stream |-> stream, z |-> z0]

\* a variant that leaves the headers as they were received
detect_keeps_headers(h, stream, check_gzip, check_brotli) ==
    IF ~check_gzip /\ ~check_brotli THEN [headers |-> h, decoder |-> plain_text(stream)]
    ELSE IF detect_gzip(h).is
         THEN [headers |-> h, decoder |-> pending(stream, "Gzip")]
    ELSE IF detect_brotli(h).is
         THEN [headers |-> h, decoder |-> pending(stream, "Brotli")]
    ELSE [headers |-> h, decoder |-> plain_text(stream)]

\* a variant that takes the two headers off before it looks at Content-Length
detect_strips_plain(h, stream, check_gzip, check_brotli) ==
    IF ~check_gzip /\ ~check_brotli
    THEN [headers |-> h, decoder |-> plain_text(stream)]
    ELSE IF detect_gzip(h).is
         THEN [headers |-> detect_gzip(h).headers,
               decoder |-> pending(stream, "Gzip")]
    ELSE IF detect_brotli(h).is
         THEN [headers |-> detect_brotli(h).headers,
               decoder |-> pending(stream, "Brotli")]
    ELSE [headers |-> IF \/ detect_codec_ignores_length(h, "gzip").is
                         \/ detect_codec_ignores_length(h, "br").is
                      THEN remove(h, {"content-encoding", "content-length"})
                      ELSE h,
          decoder |-> plain_text(stream)]

\* Decoder::detect(headers, body, check_gzip, check_brotli): the decoder and
\* the headers after the call
detect(h, stream, check_gzip, check_brotli) ==
    IF ~check_gzip /\ ~check_brotli
    THEN [headers |-> h, decoder |-> plain_text(stream)]
    ELSE IF detect_gzip(h).is
         THEN [headers |-> detect_gzip(h).headers,
               decoder |-> pending(stream, "Gzip")]
    ELSE IF detect_brotli(detect_gzip(h).headers).is
         THEN [headers |-> detect_brotli(detect_gzip(h).headers).headers,
               decoder |-> pending(stream, "Brotli")]
    ELSE [headers |-> h, decoder |-> plain_text(stream)]

\* Response::content_length
content_length(h) ==
    IF get(h, "content-length").tag = "None" THEN None
    ELSE parse_u64(get(h, "content-length").val)

\* ------------------------------------------------------ the decompressors
\* GzipDecoder / BrotliDecoder: one byte of input
feed_byte(c, z, b) ==
    CASE z.phase = "magic" ->
           IF b = c.magic THEN [z |-> [phase |-> "data", n |-> 0], out |-> <<>>]
           ELSE [z |-> [z EXCEPT !.phase = "failed"], out |-> <<>>]
      [] z.phase = "data" ->
           IF b = c.end THEN [z |-> [z EXCEPT !.phase = "trailer"], out |-> <<>>]
           ELSE IF b - c.shift \in Bytes
                THEN [z |-> [z EXCEPT !.n = z.n + 1], out |-> <<b - c.shift>>]
           ELSE [z |-> [z EXCEPT !.phase = "failed"], out |-> <<>>]
      [] z.phase = "trailer" ->
           IF b = z.n THEN [z |-> [z EXCEPT !.phase = "done"], out |-> <<>>]
           ELSE [z |-> [z EXCEPT !.phase = "failed"], out |-> <<>>]
      [] OTHER -> [z |-> [z EXCEPT !.phase = "failed"], out |-> <<>>]

\* a chunk of input
RECURSIVE feed(_, _, _)
feed(c, z, chunk) ==
    IF chunk = <<>> THEN [z |-> z, out |-> <<>>]
    ELSE LET r == feed_byte(c, z, Head(chunk))
             rest == feed(c, r.z, Tail(chunk))
         IN [z |-> rest.z, out |-> r.out \o rest.out]

\* what poll_next hands to the reader
Chunk(b) == [t |-> "chunk", bytes |-> b, kind |-> ""]
Error(k) == [t |-> "error", bytes |-> <<>>, kind |-> k]
End == [t |-> "end", bytes |-> <<>>, kind |-> ""]

\* std::io::Error: raised by a decompressor, or wrapping a failure of the
\* transport (IoStream::poll_next, err.into_io())
IoCodec == [origin |-> "codec"]
IoTransport == [origin |-> "transport"]

\* crate::error::decode_io
decode_io(e) ==
    IF e.origin = "transport" THEN Error("Transport") ELSE Error("Decode")

\* the stream of a decompressor: input is read until there is output, the
\* input fails, is invalid or ends
RECURSIVE decompress_next(_, _, _)
decompress_next(c, stream, z) ==
    IF stream = <<>>
    THEN [stream |-> stream, z |-> z,
          item |-> IF z.phase = "done" THEN End ELSE decode_io(IoCodec)]
    ELSE IF ~Head(stream).ok
    THEN [stream |-> Tail(stream), z |-> z, item |-> decode_io(IoTransport)]
    ELSE LET r == feed(c, z, Head(stream).bytes)
         IN IF r.z.phase = "failed"
            THEN [stream |-> Tail(stream), z |-> r.z, item |-> decode_io(IoCodec)]
            ELSE IF r.out # <<>>
            THEN [stream |-> Tail(stream), z |-> r.z, item |-> Chunk(r.out)]
            ELSE decompress_next(c, Tail(stream), r.z)

\* ------------------------------------------------------- Decoder::poll_next
\* a variant that builds the decompressor on what follows the peeked chunk
pending_poll_drops_peeked(d) ==
    IF d.stream = <<>> THEN [ok |-> TRUE, decoder |-> plain_text(<<>>)]
    ELSE IF ~Head(d.stream).ok
    THEN [ok |-> FALSE, decoder |-> [d EXCEPT !.stream = Tail(d.stream)]]
    ELSE [ok |-> TRUE,
          decoder |-> [d EXCEPT !.inner = d.decoder_type,
                                !.stream = Tail(d.stream)]]

\* a variant that commits to the codec although the peek failed
pending_poll_commits_on_error(d) ==
    IF d.stream = <<>> THEN [ok |-> TRUE, decoder |-> plain_text(<<>>)]
    ELSE IF ~Head(d.stream).ok
    THEN [ok |-> FALSE, decoder |-> [d EXCEPT !.inner = d.decoder_type,
                                              !.stream = Tail(d.stream)]]
    ELSE [ok |-> TRUE, decoder |-> [d EXCEPT !.inner = d.decoder_type]]

\* a variant that builds a decompressor for a body without chunks
pending_poll_decodes_empty(d) ==
    IF d.stream # <<>> /\ ~Head(d.stream).ok
    THEN [ok |-> FALSE, decoder |-> [d EXCEPT !.stream = Tail(d.stream)]]
    ELSE [ok |-> TRUE, decoder |-> [d EXCEPT !.inner = d.decoder_type]]

\* Pending::poll: peek at the raw stream.  Nothing there: PlainText over an
\* empty stream.  A failure: it is taken off the stream and returned.  A chunk:
\* the decompressor is built around the stream, the peeked chunk included
pending_poll(d) ==
    IF d.stream = <<>> THEN [ok |-> TRUE, decoder |-> plain_text(<<>>)]
    ELSE IF ~Head(d.stream).ok
    THEN [ok |-> FALSE, decoder |-> [d EXCEPT !.stream = Tail(d.stream)]]
    ELSE [ok |-> TRUE, decoder |-> [d EXCEPT !.inner = d.decoder_type]]

\* crate::Error of a failed read of the body, as ImplStream yields it
body_error == Error("Transport")

\* a variant that passes the rest of the stream through once a decompressor
\* has failed
committed_poll_next_falls_back(d) ==
    IF d.inner = "PlainText"
    THEN IF d.stream = <<>> THEN [decoder |-> d, item |-> End]
         ELSE [decoder |-> [d EXCEPT !.stream = Tail(d.stream)],
               item |-> IF Head(d.stream).ok THEN Chunk(Head(d.stream).bytes)
                        ELSE body_error]
    ELSE LET r == decompress_next(
                      Codec(IF d.inner = "Gzip" THEN "gzip" ELSE "br"),
                      d.stream, d.z)
         IN [decoder |-> [d EXCEPT !.stream = r.stream, !.z = r.z,
                                   !.inner = IF r.item.t = "error" THEN "PlainText"
                                             ELSE d.inner],
             item |-> r.item]

\* poll_next of a committed decoder
committed_poll_next(d) ==
    IF d.inner = "PlainText"
    THEN IF d.stream = <<>> THEN [decoder |-> d, item |-> End]
         ELSE [decoder |-> [d EXCEPT !.stream = Tail(d.stream)],
               item |-> IF Head(d.stream).ok THEN Chunk(Head(d.stream).bytes)
                        ELSE body_error]
    ELSE LET r == decompress_next(
                      Codec(IF d.inner = "Gzip" THEN "gzip" ELSE "br"),
                      d.stream, d.z)
         IN [decoder |-> [d EXCEPT !.stream = r.stream, !.z = r.z],
             item |-> r.item]

\* a variant that reports a failed peek as a failure of decompression
decoder_poll_next_peek_decode(d) ==
    IF d.inner = "Pending"
    THEN IF pending_poll(d).ok THEN committed_poll_next(pending_poll(d).decoder)
         ELSE [decoder |-> pending_poll(d).decoder, item |-> Error("Decode")]
    ELSE committed_poll_next(d)

\* Decoder::poll_next, the raw stream having something to report
decoder_poll_next(d) ==
    IF d.inner = "Pending"
    THEN IF pending_poll(d).ok THEN committed_poll_next(pending_poll(d).decoder)
         ELSE [decoder |-> pending_poll(d).decoder,
               item |-> decode_io(IoTransport)]
    ELSE committed_poll_next(d)

\* ------------------------------------------------------------------ actions
\* Response::new(res, url, gzip): the headers of the transport's response go
\* through Decoder::detect
Response_new ==
    /\ hyper_res # NoResponse
    /\ decoder = NoDecoder
    /\ LET r == detect(hyper_res.headers, hyper_res.body, client.gzip, brotli)
       IN /\ res_headers' = r.headers
          /\ decoder' = r.decoder
    /\ UNCHANGED <<engine_vars, brotli, hyper_res, items, bridge_vars, pair_vars>>

\* the reader is done after the end of the stream or an error of a
\* decompressor
reading ==
    /\ decoder # NoDecoder
    /\ items # <<>> =>
          /\ items[Len(items)].t # "end"
          /\ ~(items[Len(items)].t = "error" /\ decoder.inner \in {"Gzip", "Brotli"})

\* one poll of the body by the reader
poll_next ==
    /\ reading
    /\ decoder' = decoder_poll_next(decoder).decoder
    /\ items' = Append(items, decoder_poll_next(decoder).item)
    /\ UNCHANGED <<engine_vars, brotli, hyper_res, res_headers, bridge_vars, pair_vars>>

\* a client and the response of a transport to one of its requests
DecoderInit ==
    /\ client \in [gzip : BOOLEAN, headers : {DefaultHeaders},
                   redirect_policy : {PolicyNone}, referer : {TRUE}]
    /\ pc = "idle"
    /\ method = ""
    /\ url = NoUrl
    /\ headers = EmptyHeaders
    /\ body = BodyNone
    /\ urls = <<>>
    /\ in_flight = NoRequest
    /\ request = NoCall
    /\ attempts = <<>>
    /\ status = 0
    /\ candidate = None
    /\ action = ""
    /\ result = NoResult
    /\ brotli \in BOOLEAN
    /\ hyper_res \in Responses
    /\ res_headers = EmptyHeaders
    /\ decoder = NoDecoder
    /\ items = <<>>
    /\ NoBridge
    /\ NoPair

DecoderNext ==
    \/ Response_new
    \/ poll_next

DecoderSpec == DecoderInit /\ [][DecoderNext]_vars

\* the bytes of the chunks read so far, in order
RECURSIVE concat(_)
concat(its) ==
    IF its = <<>> THEN <<>>
    ELSE (IF Head(its).t = "chunk" THEN Head(its).bytes ELSE <<>>)
             \o concat(Tail(its))

DecoderTypeOK ==
    /\ decoder.inner \in {"", "PlainText", "Pending", "Gzip", "Brotli"}
    /\ Len(items) <= MaxContent + 5

\* the reader has read the body to its end or gave up on an error
done_reading == decoder # NoDecoder /\ ~reading

\* the response carries a content compressed with a supported codec, declares
\* that codec and no other in Content-Encoding, and arrives whole; automatic
\* decompression of the codec is on
Matching ==
    /\ hyper_res # NoResponse
    /\ hyper_res.coding \in {"gzip", "br"}
    /\ get_all(hyper_res.headers, "content-encoding") = <<hyper_res.coding>>
    /\ ~any(get_all(hyper_res.headers, "transfer-encoding"), "gzip")
    /\ get(hyper_res.headers, "content-length") # Some("0")
    /\ hyper_res.failure = NoFailure
    /\ IF hyper_res.coding = "gzip" THEN client.gzip ELSE brotli

\* C11: a content compressed with a supported codec and served with the
\* matching Content-Encoding is read back through the Decoder without error,
\* and at the end of the stream the bytes read are exactly the content,
\* whatever the size of the chunks the transport delivers
C11_RoundTrip ==
    Matching =>
        /\ \A i \in 1..Len(items) : items[i].t # "error"
        /\ done_reading =>
              /\ items[Len(items)] = End
              /\ concat(items) = hyper_res.content

\* a gzip stream of a two-byte content arrived one byte per chunk and was read
\* to the end
C11_Witness ==
    /\ Matching
    /\ done_reading
    /\ hyper_res.coding = "gzip"
    /\ Len(hyper_res.content) = 2
    /\ Len(hyper_res.body) = Len(hyper_res.content) + 3
    /\ concat(items) = hyper_res.content
    /\ concat(items) # encode(hyper_res.coding, hyper_res.content)

\* the same content in a single chunk
C11_WitnessSingle ==
    /\ Matching
    /\ done_reading
    /\ Len(hyper_res.content) = 2
    /\ Len(hyper_res.body) = 1
    /\ concat(items) = hyper_res.content

\* C12: a response with Content-Encoding: gzip and Content-Length: 0 gets a
\* PlainText decoder from the start: the decoder is never Pending, Gzip or
\* Brotli, the headers stay as received, and reading yields no bytes and no
\* Decode error
C12_ZeroLengthIsPlainText ==
    (/\ decoder # NoDecoder
     /\ any(get_all(hyper_res.headers, "content-encoding"), "gzip")
     /\ get(hyper_res.headers, "content-length") = Some("0")) =>
        /\ decoder.inner = "PlainText"
        /\ res_headers = hyper_res.headers
        /\ concat(items) = <<>>
        /\ \A i \in 1..Len(items) : items[i].kind # "Decode"

\* gzip decompression is on, the response says gzip and length 0, and the body
\* was read to its end
C12_Witness ==
    /\ client.gzip
    /\ get_all(hyper_res.headers, "content-encoding") = <<"gzip">>
    /\ get(hyper_res.headers, "content-length") = Some("0")
    /\ decoder.inner = "PlainText"
    /\ items = <<End>>

\* C13: while the decoder is set to decompress (it detected a supported
\* encoding), the headers of the response hold neither Content-Encoding nor
\* Content-Length, and content_length() is None
C13_DecodedHasNoLength ==
    decoder.inner \in {"Pending", "Gzip", "Brotli"} =>
        /\ "content-encoding" \notin DOMAIN res_headers
        /\ "content-length" \notin DOMAIN res_headers
        /\ content_length(res_headers) = None

\* a gzip response that came with a Content-Length is being decompressed and
\* reports no length
C13_Witness ==
    /\ decoder.inner = "Gzip"
    /\ content_length(hyper_res.headers).tag = "Some"
    /\ content_length(hyper_res.headers).val > 0
    /\ "content-encoding" \in DOMAIN hyper_res.headers
    /\ content_length(res_headers) = None
    /\ Len(items) > 0

\* ============================================================ first attempt
\* the step in which execute_request hands the first attempt to the transport
FirstAttempt == pc = "idle" /\ pc' = "pending"

\* the names of the merged headers of the request being executed
MergedNames == (DOMAIN client.headers) \cup (DOMAIN request'.headers)

\* C14: the first attempt has Accept-Encoding: gzip put in by the engine
\* exactly when decompression is on and neither the defaults nor the request
\* name Accept-Encoding or Range; otherwise the header is there only if the
\* caller put it there, and with a value of the caller
C14_AcceptEncodingAuto ==
    [][FirstAttempt =>
          LET auto == /\ client.gzip
                      /\ "accept-encoding" \notin MergedNames
                      /\ "range" \notin MergedNames
              sent == get_all(in_flight'.headers, "accept-encoding")
          IN /\ auto => sent = <<"gzip">>
             /\ ~auto =>
                   /\ sent # <<>> <=> "accept-encoding" \in MergedNames
                   /\ "accept-encoding" \in DOMAIN request'.headers =>
                         \A i \in 1..Len(sent) :
                             any(request'.headers["accept-encoding"], sent[i])]_vars

\* decompression is on, the request has no headers: gzip is advertised
C14_Witness ==
    /\ pc = "pending"
    /\ Len(attempts) = 1
    /\ client.gzip
    /\ request.headers = EmptyHeaders
    /\ get_all(in_flight.headers, "accept-encoding") = <<"gzip">>

\* decompression is on and the request asks for a range: nothing is advertised
C14_WitnessRange ==
    /\ pc = "pending"
    /\ Len(attempts) = 1
    /\ client.gzip
    /\ "range" \in DOMAIN request.headers
    /\ "accept-encoding" \notin DOMAIN in_flight.headers

\* the caller's Accept-Encoding went out although decompression is on
C14_WitnessCaller ==
    /\ pc = "pending"
    /\ Len(attempts) = 1
    /\ client.gzip
    /\ get_all(request.headers, "accept-encoding") = <<"user">>
    /\ get_all(in_flight.headers, "accept-encoding") = <<"user">>

\* C15 as stated: on the first attempt every name of the request's headers is
\* sent with the values the request gave it, and every other default header
\* with its default values
C15_Original ==
    [][FirstAttempt =>
          \A n \in MergedNames :
              get_all(in_flight'.headers, n) =
                  IF n \in DOMAIN request'.headers THEN request'.headers[n]
                  ELSE client.headers[n]]_vars

\* C15 as the engine behaves: of a name the request sets, the last value
\* alone is sent; default headers the request does not set are sent unchanged
C15_LastValueSent ==
    [][FirstAttempt =>
          \A n \in MergedNames :
              get_all(in_flight'.headers, n) =
                  IF n \in DOMAIN request'.headers
                  THEN <<request'.headers[n][Len(request'.headers[n])]>>
                  ELSE client.headers[n]]_vars

\* a request with two Cookie values and its own User-Agent went out with one
\* Cookie value, its User-Agent and the default Accept
C15_Witness ==
    /\ pc = "pending"
    /\ Len(attempts) = 1
    /\ Len(get_all(request.headers, "cookie")) = 2
    /\ get_all(in_flight.headers, "cookie") = <<"b=2">>
    /\ get_all(in_flight.headers, "user-agent") = <<"user">>
    /\ get_all(in_flight.headers, "accept") = client.headers["accept"]

\* ======================================================= synchronous bridge
\* The blocking client (the blocking module) is not part of the available
\* sources; the bridge is modelled from section 4.4 of the design text: one
\* background thread per client, a work queue of (request, reply channel)
\* pairs, a reference-counted core handle shared by the clones.

\* ways the construction of the engine can fail on the background thread
BuildFailures == {"tls", "resolver"}

\* a work item is the pair <<client, number of the call>>: the request of that
\* call and the reply channel made for it
WorkOf(c) == <<c, calls[c].n>>

\* the error of a deadline that expired
timeout_error_no_url(u) ==
    [kind |-> "Err", error |-> "Timeout", status |-> 0, url |-> NoUrl]

timeout_error(u) ==
    [kind |-> "Err", error |-> "Timeout", status |-> 0, url |-> u]

\* the reply a finished task sends: the outcome of its own request
reply_of(u) ==
    [kind |-> "Ok", error |-> "", status |-> 200, url |-> u]

\* construction, constructing thread: spawn the background thread, then wait
\* on the one-shot channel
bridge_spawn ==
    /\ thread = "unspawned"
    /\ built = "none"
    /\ thread' = "building"
    /\ built' = "waiting"
    /\ UNCHANGED <<others, timeout, ready, clients, tx_drops, joining, joins, queue,
                   spawned, finished, calls>>

\* a variant in which the thread enters its loop whatever the outcome
after_build_always_runs(outcome) ==
    "running"

\* (a), (b): the thread is in its loop after a successful construction and
\* has exited after a failed one
after_build(outcome) ==
    IF outcome = "ok" THEN "running" ELSE "exited"

\* background thread: build the engine and signal the outcome
thread_build(outcome) ==
    /\ thread = "building"
    /\ ready' = outcome
    /\ thread' = after_build(outcome)
    /\ UNCHANGED <<others, timeout, built, clients, tx_drops, joining, joins, queue,
                   spawned, finished, calls>>

\* construction returns what the one-shot channel delivered: the first client
\* handle, or the failure
bridge_returns ==
    /\ built = "waiting"
    /\ ready # "empty"
    /\ built' = ready
    /\ clients' = IF ready = "ok" THEN [clients EXCEPT ![1] = "live"] ELSE clients
    /\ UNCHANGED <<others, timeout, thread, ready, tx_drops, joining, joins, queue,
                   spawned, finished, calls>>

\* Clone of a client handle: one more reference to the core handle; the new
\* handle takes the first free name
clone(c, d) ==
    /\ clients[c] = "live"
    /\ clients[d] = "none"
    /\ \A e \in 1..(d - 1) : clients[e] # "none"
    /\ clients' = [clients EXCEPT ![d] = "live"]
    /\ UNCHANGED <<others, timeout, thread, ready, built, tx_drops, joining, joins,
                   queue, spawned, finished, calls>>

\* a variant in which every drop of a handle releases the core handle
is_last_always(c) ==
    TRUE

\* the handle c is the last reference to the core handle
is_last(c) ==
    \A d \in Clients \ {c} : clients[d] # "live"

\* Drop of a client handle; the release of the last one drops the work-queue
\* sender and then joins the thread
drop(c) ==
    /\ clients[c] = "live"
    /\ calls[c].state # "waiting"
    /\ clients' = [clients EXCEPT ![c] = "dropped"]
    /\ IF is_last(c)
       THEN /\ tx_drops' = tx_drops + 1
            /\ joining' = joining + 1
       ELSE UNCHANGED <<tx_drops, joining>>
    /\ UNCHANGED <<others, timeout, thread, ready, built, joins, queue, spawned,
                   finished, calls>>

\* the join returns once the thread has terminated
join_returns ==
    /\ joining > 0
    /\ thread = "exited"
    /\ joining' = joining - 1
    /\ joins' = joins + 1
    /\ UNCHANGED <<others, timeout, thread, ready, built, clients, tx_drops, queue,
                   spawned, finished, calls>>

\* the blocking calls made so far
RECURSIVE calls_made(_)
calls_made(cs) ==
    IF cs = {} THEN 0
    ELSE LET c == CHOOSE x \in cs : TRUE
         IN calls[c].n + calls_made(cs \ {c})

\* execute_blocking, steps 1 and 2: enqueue the request with a new reply
\* channel, then wait
execute_blocking(c, u) ==
    /\ clients[c] = "live"
    /\ calls[c].state # "waiting"
    /\ calls_made(Clients) < MaxCalls
    /\ calls' = [calls EXCEPT ![c] = [state |-> "waiting", n |-> @.n + 1,
                                      url |-> u, result |-> NoResult]]
    /\ queue' = Append(queue, <<c, calls[c].n + 1>>)
    /\ UNCHANGED <<others, timeout, thread, ready, built, clients, tx_drops, joining,
                   joins, spawned, finished>>

\* (c): the thread takes a work item and spawns it as a task
thread_recv ==
    /\ thread = "running"
    /\ queue # <<>>
    /\ spawned' = spawned \cup {Head(queue)}
    /\ queue' = Tail(queue)
    /\ UNCHANGED <<others, timeout, thread, ready, built, clients, tx_drops, joining,
                   joins, finished, calls>>

\* a variant in which the loop goes on without a sender
loop_ends_never ==
    FALSE

\* the work queue reports that it is closed: every sender was dropped and
\* nothing is queued
loop_ends ==
    queue = <<>> /\ tx_drops > 0

\* (d): the thread leaves its loop and terminates
thread_exit ==
    /\ thread = "running"
    /\ loop_ends
    /\ thread' = "exited"
    /\ UNCHANGED <<others, timeout, ready, built, clients, tx_drops, joining, joins,
                   queue, spawned, finished, calls>>

\* a task gets the answer of the engine and sends it on its reply channel
task_finish(w) ==
    /\ thread = "running"
    /\ w \in spawned \ finished
    /\ finished' = finished \cup {w}
    /\ UNCHANGED <<others, timeout, thread, ready, built, clients, tx_drops, joining,
                   joins, queue, spawned, calls>>

\* a variant in which a reply that arrives after the deadline still reaches
\* the caller
call_reply_late(c) ==
    /\ calls[c].state \in {"waiting", "returned"}
    /\ calls[c].result.kind # "Ok"
    /\ WorkOf(c) \in finished
    /\ calls' = [calls EXCEPT ![c].state = "returned",
                              ![c].result = reply_of(calls[c].url)]
    /\ UNCHANGED <<others, timeout, thread, ready, built, clients, tx_drops, joining,
                   joins, queue, spawned, finished>>

\* a variant with one reply channel for all the calls: a caller takes the
\* reply of whichever task has finished
call_reply_any(c) ==
    /\ calls[c].state = "waiting"
    /\ \E w \in finished :
           calls' = [calls EXCEPT ![c].state = "returned",
                                  ![c].result = reply_of(calls[w[1]].url)]
    /\ UNCHANGED <<others, timeout, thread, ready, built, clients, tx_drops, joining,
                   joins, queue, spawned, finished>>

\* execute_blocking, step 4: the reply has arrived
call_reply(c) ==
    /\ calls[c].state = "waiting"
    /\ WorkOf(c) \in finished
    /\ calls' = [calls EXCEPT ![c].state = "returned",
                              ![c].result = reply_of(calls[c].url)]
    /\ UNCHANGED <<others, timeout, thread, ready, built, clients, tx_drops, joining,
                   joins, queue, spawned, finished>>

\* execute_blocking, step 5: the deadline expired before the reply arrived
call_timeout(c) ==
    /\ timeout
    /\ calls[c].state = "waiting"
    /\ WorkOf(c) \notin finished
    /\ calls' = [calls EXCEPT ![c].state = "returned",
                              ![c].result = timeout_error(calls[c].url)]
    /\ UNCHANGED <<others, timeout, thread, ready, built, clients, tx_drops, joining,
                   joins, queue, spawned, finished>>

\* nothing has been executed and no body is being read
BridgeInit ==
    /\ client \in [gzip : {TRUE}, headers : {DefaultHeaders},
                   redirect_policy : {PolicyLimit(MaxLimit)}, referer : {TRUE}]
    /\ pc = "idle"
    /\ method = ""
    /\ url = NoUrl
    /\ headers = EmptyHeaders
    /\ body = BodyNone
    /\ urls = <<>>
    /\ in_flight = NoRequest
    /\ request = NoCall
    /\ attempts = <<>>
    /\ status = 0
    /\ candidate = None
    /\ action = ""
    /\ result = NoResult
    /\ NoBody
    /\ timeout \in BOOLEAN
    /\ thread = "unspawned"
    /\ ready = "empty"
    /\ built = "none"
    /\ clients = [c \in Clients |-> "none"]
    /\ tx_drops = 0
    /\ joining = 0
    /\ joins = 0
    /\ queue = <<>>
    /\ spawned = {}
    /\ finished = {}
    /\ calls = [c \in Clients |-> NoCallYet]
    /\ NoPair

BridgeNext ==
    \/ bridge_spawn
    \/ \E outcome \in {"ok"} \cup BuildFailures : thread_build(outcome)
    \/ bridge_returns
    \/ \E c \in Clients, d \in Clients : clone(c, d)
    \/ \E c \in Clients : drop(c)
    \/ join_returns
    \/ \E c \in Clients, u \in StartUrls : execute_blocking(c, u)
    \/ thread_recv
    \/ thread_exit
    \/ \E c \in Clients, n \in 1..MaxCalls : task_finish(<<c, n>>)
    \/ \E c \in Clients : call_reply(c)
    \/ \E c \in Clients : call_timeout(c)

BridgeSpec == BridgeInit /\ [][BridgeNext]_vars

\* the thread is scheduled, a caller whose reply or deadline has come wakes
\* up, a join returns once the thread is gone; a task may never finish
BridgeFairness ==
    /\ WF_vars(\E outcome \in {"ok"} \cup BuildFailures : thread_build(outcome))
    /\ WF_vars(thread_recv)
    /\ WF_vars(thread_exit)
    /\ WF_vars(bridge_returns)
    /\ WF_vars(join_returns)
    /\ \A c \in Clients : WF_vars(call_reply(c)) /\ WF_vars(call_timeout(c))

BridgeLive == BridgeSpec /\ BridgeFairness

BridgeTypeOK ==
    /\ thread \in {"unspawned", "building", "running", "exited"}
    /\ Len(queue) <= MaxCalls
    /\ finished \subseteq spawned

\* a blocking call that returned
Returned(c) == calls[c].state = "returned"

\* C16: with a deadline configured, a blocking call that is waiting always
\* returns, also when its task never answers; and a call that returns while
\* no reply has arrived returns a Timeout error carrying the URL of its request
C16_DeadlineBoundsWait ==
    \A c \in Clients :
        /\ (timeout /\ calls[c].state = "waiting") ~> Returned(c)
        /\ [](Returned(c) /\ WorkOf(c) \notin finished =>
                 /\ timeout
                 /\ calls[c].result.error = "Timeout"
                 /\ calls[c].result.url = calls[c].url
                 /\ calls[c].url \in StartUrls)

\* a call whose work item was never even taken by the thread timed out with
\* its own URL
C16_Witness ==
    \E c \in Clients :
        /\ Returned(c)
        /\ WorkOf(c) \notin finished
        /\ calls[c].result.error = "Timeout"
        /\ calls[c].result.url = calls[c].url
        /\ calls[c].url \in StartUrls

\* C17: the work-queue sender is dropped at most once and the thread joined at
\* most once; neither happens while a handle is alive, the sender is dropped
\* in the very step that releases the last handle, and a join returns only
\* after that, the thread having terminated
C17_TornDownOnce ==
    /\ tx_drops <= 1
    /\ joining + joins <= 1
    /\ (\E c \in Clients : clients[c] = "live") => tx_drops = 0 /\ joining + joins = 0
    /\ (built = "ok" /\ \A c \in Clients : clients[c] # "live") =>
           tx_drops = 1 /\ joining + joins = 1
    /\ joins = 1 => thread = "exited"

\* two handles were dropped one after the other and the thread was joined once
C17_Witness ==
    /\ \A c \in Clients : clients[c] = "dropped"
    /\ tx_drops = 1
    /\ joins = 1
    /\ joining = 0

\* C18: when the construction of the engine fails, the construction call
\* returns that failure, no client handle ever exists, and the thread has
\* exited without taking a work item
C18_BuildFailureRelayed ==
    ready \in BuildFailures =>
        /\ built \in {"waiting", ready}
        /\ \A c \in Clients : clients[c] = "none"
        /\ thread = "exited"
        /\ spawned = {}
        /\ queue = <<>>

\* the construction call has returned the failure of the thread
C18_Witness ==
    /\ ready = "tls"
    /\ built = "tls"
    /\ thread = "exited"
    /\ spawned = {}

\* C19: once the work-queue sender has been dropped, the thread eventually
\* leaves its loop and terminates
C19_ThreadTerminates ==
    (tx_drops > 0) ~> (thread = "exited")

\* the sender was dropped while a work item was still queued; the thread took
\* it and then terminated
C19_Witness ==
    /\ tx_drops = 1
    /\ thread = "exited"
    /\ spawned # {}
    /\ joins = 1

\* ================================================ the client of client.rs
\* client.rs: Client shares one ClientRef between its clones and the requests
\* built from them; the redirect policy sits in a Mutex and the two switches
\* in atomics.  RequestBuilder::send runs the redirect loop on the calling
\* thread.  The variables are those of Spec: client is the ClientRef (gzip is
\* auto_ungzip, referer is auto_referer, headers is not used), the others are
\* the locals of send.  Client::gzip and Client::referer are not called: the
\* two switches keep the values build gives them.

\* RedirectPolicy::default(): redirects are followed up to a maximum of 10
DefaultPolicy == PolicyLimit(10)

\* ClientBuilder::build
SendInit ==
    /\ client = [gzip |-> TRUE, headers |-> EmptyHeaders,
                 redirect_policy |-> DefaultPolicy, referer |-> TRUE]
    /\ pc = "idle"
    /\ method = ""
    /\ url = NoUrl
    /\ headers = EmptyHeaders
    /\ body = BodyNone
    /\ urls = <<>>
    /\ in_flight = NoRequest
    /\ request = NoCall
    /\ attempts = <<>>
    /\ status = 0
    /\ candidate = None
    /\ action = ""
    /\ result = NoResult
    /\ NoBody
    /\ NoBridge
    /\ NoPair

\* the policies the holders of the clones put in place
NewPolicies == {PolicyNone, PolicyCustom, PolicyLimit(1), DefaultPolicy}

\* Client::redirect: any holder of a clone replaces the policy of the shared
\* ClientRef, at any time
Client_redirect(policy) ==
    /\ client' = [client EXCEPT !.redirect_policy = policy]
    /\ client' # client
    /\ UNCHANGED <<pc, method, url, headers, body, urls, in_flight, request,
                   attempts, status, candidate, action, result, decoder_vars,
                   bridge_vars, pair_vars>>

\* the head of send: User-Agent and Accept unless the request has them, then
\* Accept-Encoding
send_headers(gzip, h) ==
    LET h1 == IF contains_key(h, "user-agent") THEN h
              ELSE insert(h, "user-agent", DEFAULT_USER_AGENT)
        h2 == IF contains_key(h1, "accept") THEN h1
              ELSE insert(h1, "accept", <<"*/*">>)
    IN accept_encoding(gzip, h2)

\* RequestBuilder::send up to the first req.send()
send(req) ==
    /\ pc = "idle"
    /\ LET hs == send_headers(client.gzip, req.headers)
       IN /\ method' = req.method
          /\ url' = req.url
          /\ headers' = hs
          /\ body' = reusable(req.body)
          /\ urls' = <<>>
          /\ in_flight' = hyper_request(req.method, req.url, hs, req.body.bytes)
          /\ attempts' = <<req.url>>
          /\ request' = req
    /\ pc' = "pending"
    /\ UNCHANGED <<client, status, candidate, action, result, decoder_vars,
                   bridge_vars, pair_vars>>

\* the rest of one turn of the loop of send, the server having answered with
\* status st and Location header location, and the head of the next turn; the
\* policy is the one the Mutex holds when the turn reaches check_redirect
send_response(st, location, custom) ==
    /\ pc = "pending"
    /\ LET body1 == redirect_body(st, body)
           method1 == redirect_method(st, method)
           loc == IF should_redirect(st, body) THEN location_url(url, location)
                  ELSE None
       IN /\ status' = st
          /\ candidate' = loc
          /\ body' = body1
          /\ method' = method1
          /\ IF loc.tag = "None"
             THEN /\ headers' = headers
                  /\ urls' = urls
                  /\ action' = ""
                  /\ Finish(response(st, url))
             ELSE LET next == loc.val
                      headers2 == set_referer(client.referer, headers, next, url)
                      urls1 == push_url(urls, url)
                      a == check(client.redirect_policy, st, next, urls1, custom)
                  IN /\ urls' = urls1
                     /\ action' = a
                     /\ a = "Follow" => Len(urls1) <= MaxHops
                     /\ IF follows(a)
                        THEN LET headers3 == follow_headers(headers2, next, urls1)
                             IN /\ url' = next
                                /\ headers' = headers3
                                /\ in_flight' = hyper_request(method1, next, headers3,
                                                              follow_body(body1))
                                /\ attempts' = Append(attempts, next)
                                /\ UNCHANGED <<pc, result>>
                        ELSE /\ headers' = headers2
                             /\ Finish(action_result(a, st, url))
    /\ UNCHANGED <<client, request, decoder_vars, bridge_vars, pair_vars>>

\* try_!(req.send(), &url)
send_error ==
    /\ pc = "pending"
    /\ pc' = "done"
    /\ result' = try_(url)
    /\ UNCHANGED <<client, method, url, headers, body, urls, in_flight,
                   request, attempts, status, candidate, action, decoder_vars,
                   bridge_vars, pair_vars>>

SendNext ==
    \/ \E policy \in NewPolicies : Client_redirect(policy)
    \/ \E req \in Requests : send(req)
    \/ \E st \in Statuses, location \in Locations, custom \in Answers :
           send_response(st, location, custom)
    \/ send_error

SendSpec == SendInit /\ [][SendNext]_vars

\* a turn of the loop that asks the policy
Decision ==
    /\ pc = "pending"
    /\ candidate'.tag = "Some"
    /\ action' # ""
    /\ urls' # urls

\* C20 as stated, for a request in flight: the policy of the ClientRef it
\* shares with the clones of its client does not change between the turns of
\* its loop
C20_Original ==
    [][pc = "pending" => client'.redirect_policy = client.redirect_policy]_vars

\* C20 as client.rs behaves: every redirect decision is the answer of the
\* policy the shared ClientRef holds when the decision is taken
C20_DecidesWithCurrentPolicy ==
    [][Decision =>
          \E custom \in Answers :
              action' = check(client.redirect_policy, status', candidate'.val,
                              urls', custom)]_vars

\* a request followed its first redirect, which the policy none never allows,
\* and its second redirect was stopped under the policy none, which a clone
\* had put in place of the policy that allowed the first
C20_Witness ==
    /\ pc = "done"
    /\ client.redirect_policy = PolicyNone
    /\ Len(attempts) = 2
    /\ Len(urls) = 2
    /\ action = "Stop"
    /\ candidate.tag = "Some"
    /\ result.kind = "Ok"
    /\ result.status = 302
    /\ result.url = attempts[2]

\* ================================================= more on the redirect loop
\* a step that hands a request to the transport
Issued == Len(attempts') > Len(attempts)

\* C21: one transport operation is in flight at a time, and an attempt after
\* the first is issued only by the step that received the response to the
\* attempt before it and took the decision to follow it: the step records the
\* redirected attempt in the history, the policy answered Follow for the very
\* URL issued, and every issued attempt but the one in flight has had its
\* response handled
C21_OneAttemptAtATime ==
    [][/\ Issued =>
              /\ Len(attempts') = Len(attempts) + 1
              /\ \/ pc = "idle" /\ attempts = <<>>
                 \/ /\ pc = "pending"
                    /\ status' \in RedirectStatuses
                    /\ urls' = Append(urls, in_flight.url)
                    /\ action' = "Follow"
                    /\ candidate' = Some(in_flight'.url)
                    /\ attempts'[Len(attempts')] = in_flight'.url
       /\ Len(attempts') - Len(urls') = IF pc' = "pending" THEN 1
                                        ELSE IF action' \in {"", "Follow"} THEN 1
                                        ELSE 0
      ]_vars

\* the third attempt is in flight, the two before it are history
C21_Witness ==
    /\ pc = "pending"
    /\ Len(attempts) = 3
    /\ urls = <<attempts[1], attempts[2]>>
    /\ in_flight.url = attempts[3]
    /\ action = "Follow"

\* ================================================== more on the decoder
\* C22: over the reads of one body the variant of the decoder changes at most
\* once: a Pending (detecting) decoder becomes PlainText, Gzip or Brotli, and
\* a PlainText, Gzip or Brotli decoder stays what it is
C22_CommitsOnce ==
    [][decoder # NoDecoder =>
          \/ decoder'.inner = decoder.inner
          \/ /\ decoder.inner = "Pending"
             /\ decoder'.inner \in {"PlainText", "Gzip", "Brotli"}]_vars

\* a Pending decoder committed to Gzip on the first read and was still Gzip
\* two reads later, at the end of the stream
C22_Witness ==
    /\ pending(hyper_res.body, "Gzip") = detect(hyper_res.headers, hyper_res.body,
                                                client.gzip, brotli).decoder
    /\ decoder.inner = "Gzip"
    /\ Len(items) = 3
    /\ items[1].t = "chunk"
    /\ items[3].t = "end"

\* the Referer values that are the serialisation of an https URL
SecureReferers ==
    { <<as_str(u)>> :
          u \in [scheme : {"https"}, username : {"", "u"}, password : {"", "p"},
                 host : {"a", "b"}, port : {"", "8080"}, path : {"/1", "/2"},
                 fragment : {"", "f"}] }

\* the headers carry a Referer that is an https URL
SecureReferer(h) ==
    "referer" \in DOMAIN h /\ h["referer"] \in SecureReferers

\* C23 as stated: no attempt sent to an http URL carries a Referer whose
\* value is an https URL
C23_Original ==
    (pc = "pending" /\ in_flight.url.scheme = "http") =>
        ~SecureReferer(in_flight.headers)

\* C23 as the engine behaves: an attempt sent to an http URL carries an https
\* Referer only as a leftover: an earlier redirect between two https URLs
\* put it into the headers, and the redirect to the http URL left it there
C23_StaleRefererOnly ==
    (pc = "pending" /\ in_flight.url.scheme = "http"
                    /\ SecureReferer(in_flight.headers)) =>
        /\ client.referer
        /\ Len(attempts) >= 3
        /\ \E i \in 1..(Len(attempts) - 2) :
              /\ attempts[i].scheme = "https"
              /\ attempts[i + 1].scheme = "https"
              /\ in_flight.headers["referer"] =
                     <<make_referer(attempts[i + 1], attempts[i]).val>>

\* https -> https -> http: the third attempt goes to an http URL with the
\* first URL as Referer
C23_Witness ==
    /\ pc = "pending"
    /\ Len(attempts) = 3
    /\ attempts[1].scheme = "https"
    /\ attempts[2].scheme = "https"
    /\ attempts[3].scheme = "http"
    /\ SecureReferer(in_flight.headers)
    /\ in_flight.headers["referer"] =
           <<as_str([attempts[1] EXCEPT !.username = "", !.password = "",
                                        !.fragment = ""])>>

\* a step in which a limit policy is asked about a candidate that is already
\* among the visited URLs while more than max URLs have been visited
TieStep ==
    /\ Handled
    /\ client.redirect_policy.kind = "limit"
    /\ candidate'.tag = "Some"
    /\ InSeq(candidate'.val, Visited)
    /\ Len(Visited) > client.redirect_policy.max

C25_Original ==
    [][(Followed /\ status' \in {301, 302, 303}) =>
          (DOMAIN in_flight'.headers) \cap EntityHeaders = {}]_vars

\* C25 as client.rs behaves: the attempt its loop reissues after a followed
\* 301, 302 or 303 has no body and the entity headers of the attempt before
\* it, unchanged
C25_SendKeepsEntityHeaders ==
    [][(Followed /\ status' \in {301, 302, 303}) =>
          /\ in_flight'.body = <<>>
          /\ \A n \in EntityHeaders :
                /\ n \in DOMAIN in_flight'.headers <=> n \in DOMAIN in_flight.headers
                /\ n \in DOMAIN in_flight.headers =>
                       in_flight'.headers[n] = in_flight.headers[n]]_vars

\* a POST with a body, Content-Type and Content-Length was redirected by a 303
\* and went out again as a GET without body, with both headers
C25_Witness ==
    /\ pc = "pending"
    /\ Len(attempts) = 2
    /\ status = 303
    /\ request.method = "POST"
    /\ request.body.bytes # <<>>
    /\ in_flight.method = "GET"
    /\ in_flight.body = <<>>
    /\ {"content-type", "content-length"} \subseteq DOMAIN in_flight.headers

\* a URL without its username, password and fragment
Bare(u) == [u EXCEPT !.username = "", !.password = "", !.fragment = ""]

\* C26: with referer propagation on, a followed redirect that is not from
\* https to http sends the next attempt with exactly one Referer, the URL of
\* the redirected attempt without username, password and fragment; with
\* propagation off every attempt carries the Referer the caller put on the
\* request, or none
C26_RefererIsBarePrevious ==
    [][/\ (Followed /\ client.referer
                    /\ ~(in_flight.url.scheme = "https"
                         /\ in_flight'.url.scheme = "http")) =>
              RefererOf(in_flight'.headers) = Some(<<as_str(Bare(in_flight.url))>>)
       /\ (Issued /\ ~client.referer) =>
              RefererOf(in_flight'.headers) = RefererOf(request'.headers)]_vars

\* the request to https://u:p@a/1#f was redirected to another https URL and
\* went there with Referer https://a/1
C26_Witness ==
    /\ pc = "pending"
    /\ client.referer
    /\ Len(attempts) = 2
    /\ attempts[1].username = "u"
    /\ attempts[1].fragment = "f"
    /\ attempts[2].scheme = "https"
    /\ RefererOf(in_flight.headers) = Some(<<as_str(Bare(attempts[1]))>>)
    /\ Bare(attempts[1]) # attempts[1]

\* propagation is off and the caller's Referer is on the second attempt
C26_WitnessOff ==
    /\ pc = "pending"
    /\ ~client.referer
    /\ Len(attempts) = 2
    /\ "referer" \in DOMAIN request.headers
    /\ RefererOf(in_flight.headers) = RefererOf(request.headers)

\* C27: the attempt issued after a followed 307 or 308 has the method of the
\* attempt that was redirected, whatever the method
C27_TemporaryKeepsMethod ==
    [][(Followed /\ status' \in {307, 308}) =>
          /\ in_flight'.method = in_flight.method
          /\ method' = method]_vars

\* a POST was redirected by a 308 and went out again as a POST
C27_Witness ==
    /\ pc = "pending"
    /\ Len(attempts) = 2
    /\ status = 308
    /\ request.method = "POST"
    /\ in_flight.method = "POST"

\* a HEAD was redirected by a 307 and went out again as a HEAD
C27_WitnessHead ==
    /\ pc = "pending"
    /\ Len(attempts) = 2
    /\ status = 307
    /\ request.method = "HEAD"
    /\ in_flight.method = "HEAD"

\* automatic decompression of the codec of a decoder type was asked for
Requested(type) == IF type = "Gzip" THEN client.gzip ELSE brotli

CodecName(type) == IF type = "Gzip" THEN "gzip" ELSE "br"

\* the decoder is as Response::new made it: nothing was read yet
Fresh == decoder # NoDecoder /\ items = <<>>

\* the response allows decompression with the codec of the type, as the claim
\* puts it
Allows(type) ==
    /\ Requested(type)
    /\ any(get_all(hyper_res.headers, "content-encoding"), CodecName(type))
    /\ get(hyper_res.headers, "content-length") # Some("0")

\* C28 as stated: detect returns a decoder that will decompress with a codec
\* only if decompression of that codec was asked for and Content-Encoding
\* declares the codec with a Content-Length other than 0; in every other case
\* it returns PlainText over the body
C28_Original ==
    Fresh =>
        /\ decoder.inner = "Pending" => Allows(decoder.decoder_type)
        /\ ~(Allows("Gzip") \/ Allows("Brotli")) =>
               decoder = plain_text(hyper_res.body)

\* the response declares the codec of the type, in Content-Encoding or in
\* Transfer-Encoding
Declared(type) ==
    \/ any(get_all(hyper_res.headers, "content-encoding"), CodecName(type))
    \/ any(get_all(hyper_res.headers, "transfer-encoding"), CodecName(type))

\* C28 as detect behaves: it returns a decoder that will decompress with a
\* codec only if decompression of some codec was asked for and the response
\* declares that codec, in Content-Encoding or Transfer-Encoding, with a
\* Content-Length other than 0; a PlainText decoder wraps the body unchanged
C28_DetectsWithEitherFlag ==
    Fresh =>
        /\ decoder.inner \in {"Pending", "PlainText"}
        /\ decoder.stream = hyper_res.body
        /\ decoder.inner = "Pending" =>
              /\ client.gzip \/ brotli
              /\ Declared(decoder.decoder_type)
              /\ get(hyper_res.headers, "content-length") # Some("0")
        /\ (decoder.inner = "PlainText" /\ (client.gzip \/ brotli)
                                        /\ get(hyper_res.headers, "content-length") # Some("0")) =>
              ~Declared("Gzip") /\ ~Declared("Brotli")

\* gzip decompression alone was asked for, the response says Content-Encoding:
\* br, and detect returned a decoder that will decompress brotli
C28_Witness ==
    /\ Fresh
    /\ client.gzip
    /\ ~brotli
    /\ get_all(hyper_res.headers, "content-encoding") = <<"br">>
    /\ "transfer-encoding" \notin DOMAIN hyper_res.headers
    /\ decoder = pending(hyper_res.body, "Brotli")

\* a read of a Pending decoder
Peek == decoder # NoDecoder /\ decoder.inner = "Pending" /\ items' # items

\* C29: when the first read of the raw stream of a Pending (detecting)
\* decoder fails, the read returns an error as the first item and the decoder
\* is still Pending with the type it had: no codec is committed and the
\* failure is off the stream
C29_FailedPeekCommitsNothing ==
    [][(Peek /\ items = <<>> /\ decoder.stream # <<>>
             /\ ~Head(decoder.stream).ok) =>
          /\ Len(items') = 1
          /\ items'[1].t = "error"
          /\ decoder'.inner = "Pending"
          /\ decoder'.decoder_type = decoder.decoder_type
          /\ decoder'.z = decoder.z
          /\ decoder'.stream = Tail(decoder.stream)]_vars

\* the transport failed before the first chunk of a gzip response: the error
\* was read and the decoder is Pending
C29_Witness ==
    /\ hyper_res.failure = 0
    /\ hyper_res.body # <<>>
    /\ decoder.inner = "Pending"
    /\ decoder.decoder_type = "Gzip"
    /\ Len(items) = 1
    /\ items[1].t = "error"

\* C30: when the raw stream of a Pending (detecting) decoder has ended with
\* no chunk, the read commits the decoder to PlainText over an empty stream,
\* without a decompressor, and returns the end of the stream: no chunk and no
\* error
C30_EmptyBodyIsPlainText ==
    [][(Peek /\ decoder.stream = <<>>) =>
          /\ decoder' = plain_text(<<>>)
          /\ items' = Append(items, End)]_vars

\* a response declared gzip without Content-Length and had no body: the first
\* read ended the stream and the decoder is PlainText
C30_Witness ==
    /\ hyper_res # NoResponse
    /\ hyper_res.body = <<>>
    /\ detect(hyper_res.headers, hyper_res.body, client.gzip, brotli).decoder
           = pending(<<>>, "Gzip")
    /\ decoder = plain_text(<<>>)
    /\ items = <<End>>

\* ============================================== errors of the decoder
\* a read of the body
Read == decoder # NoDecoder /\ Len(items') = Len(items) + 1

\* what the read took off the raw stream
Consumed ==
    SubSeq(decoder.stream, 1, Len(decoder.stream) - Len(decoder'.stream))

\* the read met a failure of the transport
TransportFailed == \E i \in 1..Len(Consumed) : ~Consumed[i].ok

\* C31: on every read of the body, the first read of a Pending (detecting)
\* decoder included, a failure of the transport met by the read is returned
\* as an error of a kind other than Decode, and an error returned by a read
\* that met no failure of the transport, a failure of decompression, has the
\* kind Decode
C31_ErrorKinds ==
    [][Read =>
          LET item == items'[Len(items')]
          IN /\ TransportFailed =>
                    /\ item.t = "error"
                    /\ item.kind \notin {"Decode", ""}
             /\ (item.t = "error" /\ ~TransportFailed) =>
                    /\ item.kind = "Decode"
                    /\ decoder'.inner \in {"Gzip", "Brotli"}]_vars

\* the transport failed under a detecting decoder before the first chunk, and
\* the first item is an error that is not a Decode error
C31_Witness ==
    /\ hyper_res.failure = 0
    /\ decoder.inner = "Pending"
    /\ Len(items) = 1
    /\ items[1].t = "error"
    /\ items[1].kind # "Decode"

\* bytes that are not gzip were served as gzip and the read failed with Decode
C31_WitnessDecode ==
    /\ hyper_res.failure = NoFailure
    /\ hyper_res.coding = "identity"
    /\ decoder.inner = "Gzip"
    /\ Len(items) = 1
    /\ items[1] = Error("Decode")

\* the transport failed after the first chunk of a stream that is being
\* decompressed
C31_WitnessLate ==
    /\ hyper_res.failure = 1
    /\ decoder.inner = "Gzip"
    /\ items # <<>>
    /\ items[Len(items)].t = "error"
    /\ items[Len(items)].kind # "Decode"

\* ================================================= more on the bridge
\* call number k of the handle c has returned Timeout
TimedOut(c, k) ==
    /\ calls[c].n = k
    /\ Returned(c)
    /\ calls[c].result = timeout_error(calls[c].url)

\* C32: while a handle is alive the one background thread is in its loop with
\* the sender in place, timeouts or not; a call that returned Timeout keeps
\* that result when its abandoned task completes later; and a call whose task
\* has sent its reply returns that reply, also after earlier calls of the same
\* handle or of a clone timed out
C32_TimeoutLeavesBridgeIntact ==
    /\ [][\A c \in Clients :
              (TimedOut(c, calls[c].n) /\ calls'[c].n = calls[c].n) =>
                  calls'[c] = calls[c]]_vars
    /\ [](\A c \in Clients :
              clients[c] = "live" => thread = "running" /\ tx_drops = 0)
    /\ \A c \in Clients :
           (calls[c].state = "waiting" /\ WorkOf(c) \in finished)
               ~> (Returned(c) /\ calls[c].result = reply_of(calls[c].url))

\* the first call of a handle timed out and its task completed afterwards; the
\* caller still holds the Timeout, and the call of a clone got its response
C32_Witness ==
    /\ timeout
    /\ TimedOut(1, 1)
    /\ <<1, 1>> \in finished
    /\ calls[2].n = 1
    /\ Returned(2)
    /\ calls[2].result = reply_of(calls[2].url)
    /\ thread = "running"

\* the first call of a handle timed out, its task never completed, and the
\* second call of the same handle got its response
C32_WitnessSameHandle ==
    \E c \in Clients :
        /\ calls[c].n = 2
        /\ <<c, 1>> \notin finished
        /\ Returned(c)
        /\ calls[c].result = reply_of(calls[c].url)
        /\ thread = "running"


\* ---------------------------------------------- requests executed side by side
\* Client::execute_request builds one PendingRequest per logical request; the
\* futures of two requests on one client are polled in any order

\* the two futures
Pair == 1..2

\* the logical requests executed side by side: one that carries credentials,
\* entity headers and a buffer, one that carries nothing
PairRequests ==
    { r \in Requests :
          \/ /\ r.method = "POST"
             /\ r.body.kind = "bytes"
             /\ contains_key(r.headers, "authorization")
             /\ r.url.scheme = "https"
          \/ /\ r.method = "GET"
             /\ r.headers = EmptyHeaders
             /\ r.url.scheme = "http" }

\* what the transport answers an attempt with
TransportError == [t |-> "error", st |-> 0, location |-> NoLocation]

Answered(st, location) == [t |-> "response", st |-> st, location |-> location]

PairAnswers ==
    { TransportError,
      Answered(200, NoLocation),
      Answered(302, [t |-> "abs", path |-> "",
                     abs |-> as_str(Url("https", "", "", "b", "", "/1", ""))]),
      Answered(307, [t |-> "path", path |-> "/2", abs |-> <<>>]) }

\* a variant in which the merge of execute_request writes into the client's
\* own header map
inner_headers_shared(defaults, merged) ==
    merged

\* let mut headers = self.inner.headers.clone(): the merge works on a copy,
\* the header map of the ClientRef stays what it was
inner_headers(defaults, merged) ==
    defaults

\* the PendingRequest execute_request returns for req on the client c; seen
\* collects the answers of the transport the future has handled
pending_request(c, req) ==
    LET hs == accept_encoding(c.gzip, merge_headers(c.headers, req.headers))
    IN [pc |-> "pending",
        method |-> req.method,
        url |-> req.url,
        headers |-> hs,
        body |-> reusable(req.body),
        urls |-> <<>>,
        in_flight |-> hyper_request(req.method, req.url, hs, req.body.bytes),
        attempts |-> <<req.url>>,
        result |-> NoResult,
        seen |-> <<>>]

\* PendingRequest::poll of the future f, the transport having answered the
\* attempt in flight with ans
poll_future(c, f, ans) ==
    LET st == ans.st
        g == [f EXCEPT !.seen = Append(f.seen, ans)]
        body1 == redirect_body(st, f.body)
        headers1 == redirect_headers(st, f.headers)
        method1 == redirect_method(st, f.method)
        loc == IF should_redirect(st, f.body) THEN location_url(f.url, ans.location)
               ELSE None
        next == loc.val
        headers2 == set_referer(c.referer, headers1, next, f.url)
        urls1 == push_url(f.urls, f.url)
        a == check(c.redirect_policy, st, next, urls1, "Follow")
        headers3 == follow_headers(headers2, next, urls1)
    IN CASE ans.t = "error" ->
              [g EXCEPT !.pc = "done", !.result = try_(f.url)]
         [] ans.t # "error" /\ loc.tag = "None" ->
              [g EXCEPT !.pc = "done", !.body = body1, !.method = method1,
                        !.headers = headers1, !.result = response(st, f.url)]
         [] ans.t # "error" /\ loc.tag # "None" /\ follows(a) ->
              [g EXCEPT !.body = body1, !.method = method1, !.headers = headers3,
                        !.urls = urls1, !.url = next,
                        !.in_flight = hyper_request(method1, next, headers3,
                                                    follow_body(body1)),
                        !.attempts = Append(f.attempts, next)]
         [] OTHER ->
              [g EXCEPT !.pc = "done", !.body = body1, !.method = method1,
                        !.headers = headers2, !.urls = urls1,
                        !.result = action_result(a, st, f.url)]

\* Client::execute_request(req) with another future possibly under way
pair_execute(req) ==
    /\ Len(futures) < 2
    /\ futures' = Append(futures, [req |-> req, f |-> pending_request(client, req)])
    /\ client' = [client EXCEPT !.headers =
                     inner_headers(client.headers,
                                   merge_headers(client.headers, req.headers))]
    /\ UNCHANGED <<pc, method, url, headers, body, urls, in_flight, request,
                   attempts, status, candidate, action, result, decoder_vars,
                   bridge_vars>>

\* the executor polls the future i, whose attempt the transport has answered
pair_poll(i, ans) ==
    /\ i \in DOMAIN futures
    /\ futures[i].f.pc = "pending"
    /\ Len(futures[i].f.seen) <= MaxHops
    /\ futures' = [futures EXCEPT ![i].f = poll_future(client, futures[i].f, ans)]
    /\ UNCHANGED <<engine_vars, decoder_vars, bridge_vars>>

\* one client under a limit policy, nothing executed yet
PairInit ==
    /\ client \in [gzip : {TRUE}, headers : {DefaultHeaders},
                   redirect_policy : {PolicyLimit(MaxLimit)}, referer : BOOLEAN]
    /\ pc = "idle"
    /\ method = ""
    /\ url = NoUrl
    /\ headers = EmptyHeaders
    /\ body = BodyNone
    /\ urls = <<>>
    /\ in_flight = NoRequest
    /\ request = NoCall
    /\ attempts = <<>>
    /\ status = 0
    /\ candidate = None
    /\ action = ""
    /\ result = NoResult
    /\ NoBody
    /\ NoBridge
    /\ NoPair

PairNext ==
    \/ \E req \in PairRequests : pair_execute(req)
    \/ \E i \in Pair, ans \in PairAnswers : pair_poll(i, ans)

PairSpec == PairInit /\ [][PairNext]_vars

\* the future of req run alone on a client with the default headers, the
\* transport answering with the answers of seen in turn
RECURSIVE Alone(_, _, _)
Alone(c, req, seen) ==
    IF seen = <<>> THEN pending_request(c, req)
    ELSE poll_future(c, Alone(c, req, SubSeq(seen, 1, Len(seen) - 1)),
                     seen[Len(seen)])

Downgraded ==
    /\ body = BodyNone
    /\ method \in {"GET", "HEAD"}
    /\ in_flight.body = <<>>
    /\ in_flight.method = method

\* C34: once a logical request has processed a 301, 302 or 303 redirect, every
\* later attempt of it has an empty body and the method GET or HEAD, also when
\* a later hop answers 307 or 308: the attempt issued on a 301, 302 or 303 is
\* downgraded, and an attempt issued by a downgraded request is downgraded too
C34_DowngradeIsKept ==
    [][/\ (Followed /\ status' \in {301, 302, 303})
              => Downgraded'
       /\ (pc = "pending" /\ Len(urls) >= 1 /\ Downgraded)
              => (Downgraded' /\ method' = method)]_vars

\* a POST with a buffer was redirected by a 302 and then by a 307: the third
\* attempt is a GET without a body
C34_Witness ==
    /\ pc = "pending"
    /\ request.method = "POST"
    /\ request.body.kind = "bytes"
    /\ Len(attempts) = 3
    /\ Len(urls) = 2
    /\ status = 307
    /\ in_flight.method = "GET"
    /\ in_flight.body = <<>>
    /\ in_flight.url = attempts[3]


\* neither the headers kept for redirects nor the attempt in flight carry
\* Authorization, Cookie or Proxy-Authorization
Stripped ==
    /\ (DOMAIN headers) \cap SensitiveHeaders = {}
    /\ (DOMAIN in_flight.headers) \cap SensitiveHeaders = {}

\* C35: once a followed redirect has stripped Authorization, Cookie and
\* Proxy-Authorization from the headers of a request, no later attempt of the
\* request carries them, also when a later redirect returns to the host,
\* scheme and port the request started at: the attempt issued across origins
\* is stripped, and every step of a redirected request that is stripped
\* leaves it stripped
C35_StrippedForGood ==
    [][/\ (Followed /\ CrossOrigin(in_flight.url, in_flight'.url)) => Stripped'
       /\ (pc = "pending" /\ Len(urls) >= 1 /\ Stripped) => Stripped']_vars

\* a request with credentials went to another host and came back to the host,
\* scheme and port it started at: the third attempt carries none of them
C35_Witness ==
    /\ pc = "pending"
    /\ Len(attempts) = 3
    /\ SensitiveHeaders \subseteq DOMAIN request.headers
    /\ CrossOrigin(attempts[1], attempts[2])
    /\ ~CrossOrigin(attempts[1], attempts[3])
    /\ in_flight.url = attempts[3]
    /\ Stripped


\* the first response of the request redirects to the URL just requested
SelfRedirect ==
    /\ pc = "pending"
    /\ urls = <<>>
    /\ candidate' = Some(url)

\* C36: under a limit policy with max >= 1 a response that redirects to the
\* very URL just requested ends the request with RedirectLoop on that first
\* hop and no second attempt is issued: the URL requested is in the history
\* when the policy is asked
C36_SelfRedirectIsLoop ==
    [][(/\ client.redirect_policy.kind = "limit"
        /\ client.redirect_policy.max >= 1
        /\ SelfRedirect)
           => /\ urls' = <<url>>
              /\ action' = "LoopDetected"
              /\ pc' = "done"
              /\ result' = Err("RedirectLoop", url)
              /\ attempts' = attempts
              /\ in_flight' = in_flight]_vars

\* the one attempt of a request under limit(max), max >= 1, was answered with
\* a redirect to its own URL and the request ended with RedirectLoop
C36_Witness ==
    /\ client.redirect_policy.kind = "limit"
    /\ client.redirect_policy.max >= 1
    /\ pc = "done"
    /\ attempts = <<request.url>>
    /\ urls = <<request.url>>
    /\ candidate = Some(request.url)
    /\ status \in RedirectStatuses
    /\ result = Err("RedirectLoop", request.url)


\* the work items a blocking call has enqueued so far
Enqueued == { w \in Clients \X (1..MaxCalls) : w[2] <= calls[w[1]].n }

\* how many times the work item w is in the queue or running as a task
Copies(w) ==
    Cardinality({i \in DOMAIN queue : queue[i] = w})
        + (IF w \in spawned THEN 1 ELSE 0)

\* C37: when several callers issue blocking calls at the same time through
\* clones of one client, each caller that gets a reply gets the reply to the
\* request it enqueued itself, and each enqueued request is run as exactly
\* one task: it is queued once or spawned once, never both, and it is spawned
\* in the end
C37_RepliesReachTheirCallers ==
    /\ [](\A c \in Clients :
              (Returned(c) /\ calls[c].result.kind = "Ok") =>
                  /\ calls[c].result = reply_of(calls[c].url)
                  /\ WorkOf(c) \in finished)
    /\ [](\A w \in Enqueued : Copies(w) = 1)
    /\ \A w \in Clients \X (1..MaxCalls) : (w \in Enqueued) ~> (w \in spawned)

\* two callers asked for different URLs through two handles at the same time;
\* both tasks have finished, the first caller has its own reply and the
\* reply for the second is waiting for it
C37_Witness ==
    /\ clients[1] = "live"
    /\ clients[2] = "live"
    /\ calls[1].url # calls[2].url
    /\ Returned(1)
    /\ calls[1].result = reply_of(calls[1].url)
    /\ calls[2].state = "waiting"
    /\ WorkOf(2) \in finished
    /\ spawned = {<<1, 1>>, <<2, 1>>}
    /\ queue = <<>>


\* both callers are waiting at once, each with the reply of its own task ready
C37_WitnessBothWaiting ==
    /\ calls[1].state = "waiting"
    /\ calls[2].state = "waiting"
    /\ calls[1].url # calls[2].url
    /\ finished = {<<1, 1>>, <<2, 1>>}


\* ------------------------------------------------------------- termination
\* the transport answers the attempt in flight, with a response or an error
Answer ==
    \/ \E st \in Statuses, location \in Locations, custom \in Answers :
           poll_response(st, location, custom)
    \/ poll_error

UnderLimit == client.redirect_policy.kind = "limit"

\* a client with a limit policy
LimitInit == Init /\ UnderLimit /\ client.gzip /\ client.referer

\* the requests executed: every method, URL and body, without headers
LimitRequests == { r \in Requests : r.headers = EmptyHeaders }

LimitNext ==
    \/ \E req \in LimitRequests : execute_request(req)
    \/ \E st \in Statuses, location \in Locations, custom \in Answers :
           poll_response(st, location, custom)
    \/ poll_error

\* the engine under a limit policy with a transport that answers every attempt
LimitSpec == LimitInit /\ [][LimitNext]_vars /\ WF_vars(Answer)

\* C38: under a limit(max) policy and a transport that answers every attempt,
\* every logical request ends with a response or an error after at most
\* max + 1 attempts, whatever the server answers
C38_TerminatesWithinLimit ==
    /\ [](UnderLimit => Len(attempts) <= client.redirect_policy.max + 1)
    /\ (UnderLimit /\ pc = "pending")
           ~> (pc = "done" /\ result.kind \in {"Ok", "Err"})

\* a request under limit(max) was redirected max times to a new URL each time
\* and the answer to attempt max + 1, one more redirect, ended it
C38_Witness ==
    /\ UnderLimit
    /\ client.redirect_policy.max = MaxLimit
    /\ pc = "done"
    /\ Len(attempts) = MaxLimit + 1
    /\ result = Err("TooManyRedirects", attempts[MaxLimit + 1])


\* ============================================== headers left as received
\* what Decoder::detect made of the response
Detected == detect(hyper_res.headers, hyper_res.body, client.gzip, brotli)

C39_WitnessEmptyBody ==
    /\ Detected.decoder.inner = "Pending"
    /\ decoder = plain_text(<<>>)
    /\ "content-encoding" \in DOMAIN hyper_res.headers
    /\ "content-encoding" \notin DOMAIN res_headers
    /\ items = <<End>>
====
